---- MODULE Spec2Model ----
(***************************************************************************)
(* Resumable batch-translation pipeline of the i18n scripts.               *)
(*                                                                         *)
(* Three drivers share one shape and are told apart by `variant`:          *)
(*   "llamacpp"  scripts/i18n-translate.py         (main)                  *)
(*   "ollama"    scripts/i18n-translate-ollama.py  (main)                  *)
(*   "workflow"  scripts/i18n-workflow.py          (translate_strings)     *)
(*                                                                         *)
(* A Python str is a sequence of one-character strings; Python None and a  *)
(* failed oracle call are the one-element sequences None and Failure,      *)
(* which no text equals.                                                   *)
(***************************************************************************)
EXTENDS Integers, Sequences, FiniteSets, TLC

\* ------------------------------------------------------------------ bounds
MaxItems == 3
MaxBatch == 2
MaxInterval == 2
MaxRuns == 2
RestartItems == 2
MaxMerges == 2
MaxLines == 2

\* ------------------------------------------------------- program constants
WorkflowCheckpointInterval == 10

Variants == {"llamacpp", "ollama", "workflow"}

None == << "None" >>
Failure == << "Failure" >>

\* Python truthiness of an Optional[str]
Truthy(x) == x # None /\ x # <<>>

\* ------------------------------------------------------------ str helpers
IsSpace(c) == c \in {" ", "\t", "\n", "\r"}

IsDigit(c) == c \in {"0", "1", "2", "3", "4", "5", "6", "7", "8", "9"}

DigitVal(c) ==
    CASE c = "0" -> 0 [] c = "1" -> 1 [] c = "2" -> 2 [] c = "3" -> 3
      [] c = "4" -> 4 [] c = "5" -> 5 [] c = "6" -> 6 [] c = "7" -> 7
      [] c = "8" -> 8 [] c = "9" -> 9

Lower(c) ==
    CASE c = "A" -> "a" [] c = "B" -> "b" [] c = "C" -> "c" [] c = "D" -> "d"
      [] c = "E" -> "e" [] c = "F" -> "f" [] c = "G" -> "g" [] c = "H" -> "h"
      [] c = "I" -> "i" [] c = "J" -> "j" [] c = "K" -> "k" [] c = "L" -> "l"
      [] c = "M" -> "m" [] c = "N" -> "n" [] c = "O" -> "o" [] c = "P" -> "p"
      [] c = "Q" -> "q" [] c = "R" -> "r" [] c = "S" -> "s" [] c = "T" -> "t"
      [] c = "U" -> "u" [] c = "V" -> "v" [] c = "W" -> "w" [] c = "X" -> "x"
      [] c = "Y" -> "y" [] c = "Z" -> "z" [] OTHER -> c

LowerStr(s) == [i \in 1..Len(s) |-> Lower(s[i])]

\* s[i:] with a 1-based i
From(s, i) == SubSeq(s, i, Len(s))

RECURSIVE LStrip(_)
LStrip(s) == IF s # <<>> /\ IsSpace(s[1]) THEN LStrip(Tail(s)) ELSE s

RECURSIVE RStrip(_)
RStrip(s) ==
    IF s # <<>> /\ IsSpace(s[Len(s)]) THEN RStrip(SubSeq(s, 1, Len(s) - 1)) ELSE s

\* str.strip()
Strip(s) == RStrip(LStrip(s))

\* str.startswith / str.endswith for a one-character argument
StartsWith(s, c) == s # <<>> /\ s[1] = c
EndsWith(s, c) == s # <<>> /\ s[Len(s)] = c

\* s[1:-1]
Inner(s) == SubSeq(s, 2, Len(s) - 1)

\* `sub in s`
Contains(sub, s) ==
    \E i \in 1..(Len(s) - Len(sub) + 1) : SubSeq(s, i, i + Len(sub) - 1) = sub

\* index of the first occurrence of character c in s at or after i, else 0
RECURSIVE IndexFrom(_, _, _)
IndexFrom(s, c, i) ==
    IF i > Len(s) THEN 0
    ELSE IF s[i] = c THEN i
    ELSE IndexFrom(s, c, i + 1)

\* str.split('\n')
RECURSIVE SplitLines(_)
SplitLines(s) ==
    LET k == IndexFrom(s, "\n", 1)
    IN IF k = 0 THEN << s >>
       ELSE << SubSeq(s, 1, k - 1) >> \o SplitLines(From(s, k + 1))

\* '\n'.join(lines)
RECURSIVE JoinLines(_)
JoinLines(lines) ==
    IF lines = <<>> THEN <<>>
    ELSE IF Len(lines) = 1 THEN lines[1]
    ELSE lines[1] \o << "\n" >> \o JoinLines(Tail(lines))

\* length of the run of digits / of whitespace that starts s
RECURSIVE DigitRun(_)
DigitRun(s) == IF s # <<>> /\ IsDigit(s[1]) THEN 1 + DigitRun(Tail(s)) ELSE 0

RECURSIVE SpaceRun(_)
SpaceRun(s) == IF s # <<>> /\ IsSpace(s[1]) THEN 1 + SpaceRun(Tail(s)) ELSE 0

\* int(digits)
RECURSIVE ToInt(_)
ToInt(ds) ==
    IF ds = <<>> THEN 0
    ELSE 10 * ToInt(SubSeq(ds, 1, Len(ds) - 1)) + DigitVal(ds[Len(ds)])

\* str(n) for n >= 0
DigitChar(d) == << "0", "1", "2", "3", "4", "5", "6", "7", "8", "9" >>[d + 1]

RECURSIVE ToStr(_)
ToStr(n) == IF n < 10 THEN << DigitChar(n) >> ELSE ToStr(n \div 10) \o << DigitChar(n % 10) >>

\* f"{{{param}}}"
Placeholder(param) == << "{" >> \o param \o << "}" >>

\* set(re.findall(r'\{[^}]+\}', s)), scanning from position i
RECURSIVE FindPlaceholders(_, _)
FindPlaceholders(s, i) ==
    IF i > Len(s) THEN {}
    ELSE LET close == IndexFrom(s, "}", i + 1)
         IN IF s[i] = "{" /\ close > i + 1
            THEN {SubSeq(s, i, close)} \cup FindPlaceholders(s, close + 1)
            ELSE FindPlaceholders(s, i + 1)

\* re.sub(r'^(\d+)\.\s*', '', s)
StripNumbering(s) ==
    LET d == DigitRun(s)
    IN IF d > 0 /\ d < Len(s) /\ s[d + 1] = "."
       THEN LET rest == From(s, d + 2) IN From(rest, SpaceRun(rest) + 1)
       ELSE s

NoteWords == { << "k", "e", "e", "p" >>,
               << "m", "a", "n", "t", "e", "r" >>,
               << "m", "a", "n", "t", "e", "n", "e", "r" >>,
               << "g", "a", "r", "d", "e", "r" >> }

\* end of a match of \[(?:keep|manter|mantener|garder)[^\]]*\] that starts at
\* s[j] (re.IGNORECASE), else 0
NoteEnd(s, j) ==
    IF j <= Len(s) /\ s[j] = "["
         /\ \E w \in NoteWords :
               /\ j + Len(w) <= Len(s)
               /\ LowerStr(SubSeq(s, j + 1, j + Len(w))) = w
    THEN IndexFrom(s, "]", j + 1)
    ELSE 0

\* re.sub(r'\s*\[(?:keep|manter|mantener|garder)[^\]]*\]', '', s, flags=re.IGNORECASE)
RECURSIVE StripNotes(_)
StripNotes(s) ==
    IF s = <<>> THEN <<>>
    ELSE LET e == NoteEnd(s, SpaceRun(s) + 1)
         IN IF e > 0 THEN StripNotes(From(s, e + 1))
            ELSE << s[1] >> \o StripNotes(Tail(s))

\* --------------------------------------------------------- Response Parser
\* the quote stripping shared by the parser and the single-item cleaners
Unquote(t) ==
    IF (StartsWith(t, "\"") /\ EndsWith(t, "\"")) \/ (StartsWith(t, "'") /\ EndsWith(t, "'"))
    THEN Inner(t)
    ELSE t

\* (variant for C28: a closing parenthesis after the number is taken as well)
MatchNumberedAnyMark(line) ==
    LET d == DigitRun(line)
        rest == From(line, d + 2)
        g2 == From(rest, SpaceRun(rest) + 1)
    IN IF d > 0 /\ d < Len(line) /\ line[d + 1] \in {".", ")"} /\ g2 # <<>>
       THEN [matched |-> TRUE, num |-> ToInt(SubSeq(line, 1, d)), rest |-> g2]
       ELSE [matched |-> FALSE, num |-> 0, rest |-> <<>>]

\* re.match(r'^(\d+)\.\s*(.+)$', line) on a stripped line: the two groups,
\* or matched = FALSE
MatchNumbered(line) ==
    LET d == DigitRun(line)
        rest == From(line, d + 2)
        g2 == From(rest, SpaceRun(rest) + 1)
    IN IF d > 0 /\ d < Len(line) /\ line[d + 1] = "." /\ g2 # <<>>
       THEN [matched |-> TRUE, num |-> ToInt(SubSeq(line, 1, d)), rest |-> g2]
       ELSE [matched |-> FALSE, num |-> 0, rest |-> <<>>]

\* the normalisation of one matched remainder, in the order of the code
NormaliseCandidate(v, g2) ==
    LET unq == Unquote(Strip(g2))
        noted == StripNotes(unq)
        stripped == IF v = "ollama" THEN noted ELSE Strip(noted)
    IN StripNumbering(stripped)

\* (variant for C29: the position is not tested against 0, and Python's negative
\* index counts from the end)
ParseLineNegativeIndex(v, results, line, count) ==
    LET l == Strip(line)
        m == MatchNumbered(l)
        idx == m.num - 1
        translation == NormaliseCandidate(v, m.rest)
    IN IF l = <<>> \/ ~m.matched THEN results
       ELSE IF -count <= idx /\ idx < count /\ translation # <<>>
            THEN [results EXCEPT ![IF idx < 0 THEN count + idx + 1 ELSE idx + 1] = translation]
            ELSE results

\* (variant for C27: a position keeps the first candidate it was given)
ParseLineFirstWins(v, results, line, count) ==
    LET l == Strip(line)
        m == MatchNumbered(l)
        idx == m.num - 1
        translation == NormaliseCandidate(v, m.rest)
    IN IF l = <<>> \/ ~m.matched THEN results
       ELSE IF 0 <= idx /\ idx < count /\ translation # <<>> /\ results[idx + 1] = None
            THEN [results EXCEPT ![idx + 1] = translation]
            ELSE results

\* one iteration of the loop over the lines
ParseLine(v, results, line, count) ==
    LET l == Strip(line)
        m == MatchNumbered(l)
        idx == m.num - 1
        translation == NormaliseCandidate(v, m.rest)
    IN IF l = <<>> \/ ~m.matched THEN results
       ELSE IF 0 <= idx /\ idx < count /\ translation # <<>>
            THEN [results EXCEPT ![idx + 1] = translation]
            ELSE results

RECURSIVE ParseLines(_, _, _, _)
ParseLines(v, results, lines, count) ==
    IF lines = <<>> THEN results
    ELSE ParseLines(v, ParseLine(v, results, lines[1], count), Tail(lines), count)

parse_batch_response(v, response, count) ==
    ParseLines(v, [i \in 1..count |-> None], SplitLines(Strip(response)), count)

\* --------------------------------------------------------------- Validator
Accept == "accept"
EmptyTranslation == "Empty translation"
MissingParameter == "Missing parameter"
SpuriousPlaceholder == "New placeholders introduced"
SuspiciousLengthRatio == "Suspicious length ratio"

\* the candidate as the checks see it: trimmed, then the quotes removed
ValidatorView(v, translation) ==
    LET t0 == Strip(translation)
        t1 == IF StartsWith(t0, "\"") /\ EndsWith(t0, "\"") THEN Inner(t0) ELSE t0
    IN IF v = "ollama" THEN t1
       ELSE IF StartsWith(t1, "'") /\ EndsWith(t1, "'") THEN Inner(t1) ELSE t1

Max(a, b) == IF a >= b THEN a ELSE b
Min(a, b) == IF a <= b THEN a ELSE b

\* a length check that also refuses the ratios 5 and 0.1 themselves
BadLengthRatioStrict(original, t) ==
    LET m == IF Len(original) >= 1 THEN Len(original) ELSE 1
    IN Len(t) >= 5 * m \/ 10 * Len(t) <= m

\* len_ratio > 5 or len_ratio < 0.1, with len_ratio = len(t) / max(len(o), 1)
BadLengthRatio(original, t) ==
    LET m == Max(Len(original), 1)
    IN Len(t) > 5 * m \/ 10 * Len(t) < m

\* a validator without the loop over params
validate_translation_ignores_params(v, original, translation, params) ==
    IF translation = None \/ Strip(translation) = <<>> THEN EmptyTranslation
    ELSE LET t == ValidatorView(v, translation)
         IN IF v # "ollama"
                 /\ FindPlaceholders(t, 1) \ FindPlaceholders(original, 1) # {}
            THEN SpuriousPlaceholder
            ELSE IF BadLengthRatio(original, t) THEN SuspiciousLengthRatio
            ELSE Accept

\* the reason of the first failing check, or Accept
validate_translation(v, original, translation, params) ==
    IF translation = None \/ Strip(translation) = <<>> THEN EmptyTranslation
    ELSE LET t == ValidatorView(v, translation)
         IN IF \E i \in 1..Len(params) :
                    /\ Contains(Placeholder(params[i]), original)
                    /\ ~Contains(Placeholder(params[i]), t)
            THEN MissingParameter
            ELSE IF v # "ollama"
                      /\ FindPlaceholders(t, 1) \ FindPlaceholders(original, 1) # {}
            THEN SpuriousPlaceholder
            ELSE IF BadLengthRatio(original, t) THEN SuspiciousLengthRatio
            ELSE Accept

\* ------------------------------------------------- single-item cleaning
Prefixes == << << "T", "r", "a", "n", "s", "l", "a", "t", "i", "o", "n", ":", " " >>,
               << "P", "o", "r", "t", "u", "g", "u", "e", "s", "e", ":", " " >>,
               << "T", "r", "a", "n", "s", "l", "a", "t", "e", "d", ":", " " >>,
               << "R", "e", "s", "u", "l", "t", ":", " " >>,
               << "O", "u", "t", "p", "u", "t", ":", " " >> >>

HasPrefix(text, prefix) ==
    Len(text) >= Len(prefix) /\ LowerStr(SubSeq(text, 1, Len(prefix))) = LowerStr(prefix)

RECURSIVE RemovePrefixes(_, _)
RemovePrefixes(text, k) ==
    IF k > Len(Prefixes) THEN text
    ELSE RemovePrefixes(IF HasPrefix(text, Prefixes[k])
                        THEN From(text, Len(Prefixes[k]) + 1) ELSE text, k + 1)

\* the first line of the stripped output, stripped
FirstLine(text) == Strip(SplitLines(Strip(text))[1])

\* clean_translation of the llama.cpp script
clean_translation(text) == Strip(RemovePrefixes(Unquote(FirstLine(text)), 1))

\* ------------------------------------------------------------ the job data
Letters == << "a", "b", "c", "d", "e", "f" >>
Capitals == << "A", "B", "C", "D", "E", "F" >>

HasParam(i) == i % 2 = 1

\* the i-th record of the job file produced by the extraction step: pending,
\* with the placeholder names of its key as params
InputItem(i) ==
    [ key |-> IF HasParam(i) THEN << Letters[i], "{", "n", "}" >> ELSE << Letters[i] >>,
      params |-> IF HasParam(i) THEN << << "n" >> >> ELSE <<>>,
      translation |-> <<>>,
      from_locale |-> FALSE ]

InputJob(n) == [i \in 1..n |-> InputItem(i)]

\* texts the oracle may answer for the i-th key: a faithful translation, and a
\* flawed one (placeholder dropped, or far too long for the key)
GoodText(i) == IF HasParam(i) THEN << Capitals[i], "{", "n", "}" >> ELSE << Capitals[i] >>
BadText(i) ==
    IF HasParam(i) THEN << Capitals[i] >>
    ELSE [k \in 1..6 |-> Capitals[i]]

KeyIndex(key) == CHOOSE i \in 1..Len(Letters) : Letters[i] = key[1]

\* the persistent store {"_exactStrings": {...}} as the ordered list of its entries
StoredText == << "Z", "{", "n", "}" >>
Locales == { <<>>, << [key |-> InputItem(1).key, value |-> StoredText] >> }

StoreHas(store, key) == \E k \in 1..Len(store) : store[k].key = key
StoreGet(store, key) == store[CHOOSE k \in 1..Len(store) : store[k].key = key].value

\* ------------------------------------------------------------------ merge
\* the characters of keys, in code point order
KeyChars == << "a", "b", "c", "d", "e", "f", "n", "{", "}" >>
CharCode(c) == CHOOSE i \in 1..Len(KeyChars) : KeyChars[i] = c

\* k1 < k2 as Python compares str
RECURSIVE KeyLess(_, _)
KeyLess(k1, k2) ==
    IF k2 = <<>> THEN FALSE
    ELSE IF k1 = <<>> THEN TRUE
    ELSE IF k1[1] # k2[1] THEN CharCode(k1[1]) < CharCode(k2[1])
    ELSE KeyLess(Tail(k1), Tail(k2))

\* (variant for C22: the store is written in the order of insertion)
SortStoreNone(store) == store

\* sorted(new_exact_strings.items())
RECURSIVE InsertSorted(_, _)
InsertSorted(store, entry) ==
    IF store = <<>> THEN << entry >>
    ELSE IF KeyLess(entry.key, store[1].key) THEN << entry >> \o store
    ELSE << store[1] >> \o InsertSorted(Tail(store), entry)

RECURSIVE SortStore(_)
SortStore(store) ==
    IF store = <<>> THEN <<>> ELSE InsertSorted(SortStore(Tail(store)), store[1])

\* (variant for C14: every item of the job is merged)
ValidTranslationsAll(job) == job

\* [t for t in translations if t.get('translation') and t['translation'].strip()]
RECURSIVE ValidTranslations(_)
ValidTranslations(job) ==
    IF job = <<>> THEN <<>>
    ELSE (IF Truthy(job[1].translation) /\ Strip(job[1].translation) # <<>>
          THEN << job[1] >> ELSE <<>>) \o ValidTranslations(Tail(job))

NoCounts == [new |-> 0, updated |-> 0, unchanged |-> 0]

\* (variant for C19: the new value is added after the old entry)
StorePutAppend(store, key, value) == Append(store, [key |-> key, value |-> value])

\* new_exact_strings[key] = translation on a key that is present
StorePut(store, key, value) ==
    [k \in 1..Len(store) |-> IF store[k].key = key THEN [key |-> key, value |-> value]
                             ELSE store[k]]

\* (variant for C17: the stored value is replaced by the source text)
MergeItemKeepsKey(acc, item) ==
    [store |-> IF StoreHas(acc.store, item.key) THEN StorePut(acc.store, item.key, item.key)
               ELSE Append(acc.store, [key |-> item.key, value |-> item.key]),
     counts |-> [acc.counts EXCEPT !.updated = @ + 1]]

\* (variant for C18: an overwritten entry is counted new)
MergeItemUpdatedAsNew(acc, item) ==
    LET translation == Strip(item.translation)
    IN IF ~StoreHas(acc.store, item.key)
       THEN [store |-> Append(acc.store, [key |-> item.key, value |-> translation]),
             counts |-> [acc.counts EXCEPT !.new = @ + 1]]
       ELSE IF StoreGet(acc.store, item.key) # translation
       THEN [store |-> StorePut(acc.store, item.key, translation),
             counts |-> [acc.counts EXCEPT !.new = @ + 1]]
       ELSE [store |-> acc.store,
             counts |-> [acc.counts EXCEPT !.unchanged = @ + 1]]

\* (variant for C20: a present key is overwritten without comparing the values)
MergeItemNoCompare(acc, item) ==
    LET translation == Strip(item.translation)
    IN IF ~StoreHas(acc.store, item.key)
       THEN [store |-> Append(acc.store, [key |-> item.key, value |-> translation]),
             counts |-> [acc.counts EXCEPT !.new = @ + 1]]
       ELSE [store |-> StorePut(acc.store, item.key, translation),
             counts |-> [acc.counts EXCEPT !.updated = @ + 1]]

\* one pass of the merge loop: classify against the store as it is now
MergeItem(acc, item) ==
    LET translation == Strip(item.translation)
    IN IF ~StoreHas(acc.store, item.key)
       THEN [store |-> Append(acc.store, [key |-> item.key, value |-> translation]),
             counts |-> [acc.counts EXCEPT !.new = @ + 1]]
       ELSE IF StoreGet(acc.store, item.key) # translation
       THEN [store |-> StorePut(acc.store, item.key, translation),
             counts |-> [acc.counts EXCEPT !.updated = @ + 1]]
       ELSE [store |-> acc.store,
             counts |-> [acc.counts EXCEPT !.unchanged = @ + 1]]

RECURSIVE MergeLoop(_, _)
MergeLoop(acc, items) ==
    IF items = <<>> THEN acc ELSE MergeLoop(MergeItem(acc, items[1]), Tail(items))

\* (variant for C21: the new store holds the merged items only)
merge_translations_fresh(store, job) ==
    IF ValidTranslations(job) = <<>>
    THEN [written |-> FALSE, store |-> store, counts |-> NoCounts]
    ELSE LET acc == MergeLoop([store |-> <<>>, counts |-> NoCounts], ValidTranslations(job))
         IN [written |-> TRUE, store |-> acc.store, counts |-> acc.counts]

\* merge_translations on a loaded job: the store written and the counts printed;
\* with no valid translation nothing is written
merge_translations(store, job) ==
    IF ValidTranslations(job) = <<>>
    THEN [written |-> FALSE, store |-> store, counts |-> NoCounts]
    ELSE LET acc == MergeLoop([store |-> store, counts |-> NoCounts], ValidTranslations(job))
         IN [written |-> TRUE, store |-> SortStore(acc.store), counts |-> acc.counts]

\* another translation of the i-th key than GoodText(i)
OtherText(i) == IF HasParam(i) THEN << "Z", "{", "n", "}" >> ELSE << "Z" >>

\* the stores over the first n keys: sorted by key, each key absent or with one
\* of two values
RECURSIVE StoreOf(_, _)
StoreOf(choice, i) ==
    IF i > Len(choice) THEN <<>>
    ELSE (IF choice[i] = 0 THEN <<>>
          ELSE << [key |-> InputItem(i).key,
                   value |-> IF choice[i] = 1 THEN GoodText(i) ELSE OtherText(i)] >>)
         \o StoreOf(choice, i + 1)

Stores(n) == { StoreOf(choice, 1) : choice \in [1..n -> 0..2] }

\* the completed jobs of n items: each pending, failed or translated one of two ways
CompletedJobs(n) ==
    { [i \in 1..n |-> [InputItem(i) EXCEPT !.translation =
                          IF choice[i] = 0 THEN <<>>
                          ELSE IF choice[i] = 1 THEN GoodText(i) ELSE OtherText(i)]] :
      choice \in [1..n -> 0..2] }

\* a JSON file: absent, cut short by an interrupted write, or a complete job
AbsentFile == [state |-> "absent", job |-> <<>>]
PartialFile == [state |-> "partial", job |-> <<>>]
CompleteFile(job) == [state |-> "complete", job |-> job]

\* ------------------------------------------------------------------ state
VARIABLES
    variant,              \* which of the three scripts runs
    batch_size,           \* --batch-size
    checkpoint_interval,  \* --checkpoint-interval (fixed in the workflow script)
    input,                \* the job file given as --input
    locale,               \* the persistent store of the target language
    checkpoint,           \* the file at checkpoint_path
    output,               \* the file at output_path
    pc,                   \* where the process is; "stopped" = no process
    data,                 \* the job held in memory
    pending,              \* the pending items, as indices into data
    batch_start,          \* loop variable of the batch loop
    results,              \* what translate_batch returned for the current batch
    pos,                  \* items of the current batch already processed
    failed,               \* keys whose single-item retry failed
    total_processed,      \* cumulative count (llama.cpp and Ollama scripts)
    run,                  \* number of runs started
    requests,             \* the oracle requests of the current loop iteration
    raw,                  \* the oracle's answer to the batch request just made
    batch_failed,         \* the batch request of the current batch failed
    saved_at,             \* items processed when this run last saved a checkpoint
    args_force,           \* --force of the current run
    lang,                 \* --lang, the target language code
    counts,               \* new / updated / unchanged of the last merge
    merges,               \* merge passes made over the output file
    call,                 \* the arguments of a function called on its own
    returned,             \* what that call returned
    calls,                \* the backend calls of the run so far, by kind
    embedder,             \* embedder.py: the embedder of main, "none" before any
    log,                  \* embedder.py: the stdin lines read, each with what it printed
    status                \* embedder.py: the loop of main is running, ended or crashed

vars == << variant, batch_size, checkpoint_interval, input, locale, checkpoint, output,
           pc, data, pending, batch_start, results, pos, failed, total_processed,
           run, requests, raw, batch_failed, saved_at, args_force, lang, counts,
           merges, call, returned, calls, embedder, log, status >>

\* no backend call made yet
NoCalls == [batch |-> 0, single |-> 0]

\* what only a merge changes
merged == << counts, merges >>

\* a function called on its own
called == << call, returned >>

config == << variant, batch_size, checkpoint_interval, input, locale, lang, called,
             embedder, log, status >>

\* ------------------------------------------------------ language profiles
\* the codes of LANGUAGE_CONFIG in each script
LANGUAGE_CONFIG(v) ==
    CASE v = "llamacpp" -> {"pt", "es", "fr", "de"}
      [] v = "ollama" -> {"pt", "es"}
      [] v = "workflow" ->
            {"pt", "es", "fr", "it", "ro", "de", "nl", "sv", "no", "da", "ru", "pl",
             "cs", "uk", "ja", "ko", "zh", "zh-tw", "vi", "th", "id", "ms", "hi",
             "tr", "ar", "he", "el", "hu", "fi"}

\* the default of --lang, and the codes a run is given here: in every table, in
\* the workflow's only, in none
DefaultLang == "pt"
Langs == {"pt", "fi", "xx"}

is_language_supported(v, lang_code) == lang_code \in LANGUAGE_CONFIG(v)

\* the profile a prompt is rendered with: the entry of the table, or for a code
\* that is not in it a ValueError (workflow) or a profile made up from the code
get_language_config(v, lang_code) ==
    IF lang_code \in LANGUAGE_CONFIG(v) THEN lang_code
    ELSE IF v = "workflow" THEN "ValueError"
    ELSE "default"

BatchSizes(v) ==
    IF v = "workflow" THEN (1..MaxBatch) \cup {WorkflowCheckpointInterval} ELSE 1..MaxBatch

Intervals(v) == IF v = "workflow" THEN {WorkflowCheckpointInterval} ELSE 1..MaxInterval

\* ----------------------------------------------------------------- oracle
\* "N. text" as the model is asked to answer
NumberedLine(n, text) == ToStr(n) \o << ".", " " >> \o text

RECURSIVE AnswerLines(_, _, _)
AnswerLines(items, choice, k) ==
    IF k > Len(items) THEN <<>>
    ELSE LET i == KeyIndex(items[k].key)
             line == IF choice[k] = "omit" THEN <<>>
                     ELSE << NumberedLine(k, IF choice[k] = "good" THEN GoodText(i)
                                             ELSE BadText(i)) >>
         IN line \o AnswerLines(items, choice, k + 1)

\* what the backend may return for a batch request: a failure, or text that
\* answers each numbered item well, badly or not at all
BatchOutputs(items) ==
    {Failure} \cup
    { JoinLines(AnswerLines(items, choice, 1)) :
        choice \in [1..Len(items) -> {"omit", "good", "bad"}] }

\* what the backend may return for a single-item request
SingleOutputs(item) ==
    LET i == KeyIndex(item.key)
    IN { Failure, <<>>, GoodText(i), BadText(i),
         << "\"" >> \o GoodText(i) \o << "\"", "\n", "x" >> }

\* ------------------------------------------------------- translate_batch
\* (variant for C9: a failed call falls back to the source texts)
translate_batch_fallback(v, items, out) ==
    IF out = Failure \/ (v # "llamacpp" /\ out = <<>>)
    THEN [k \in 1..Len(items) |-> items[k].key]
    ELSE LET translations == parse_batch_response(v, out, Len(items))
         IN [k \in 1..Len(items) |->
                IF Truthy(translations[k])
                   /\ validate_translation(v, items[k].key, translations[k],
                                           items[k].params) = Accept
                THEN translations[k]
                ELSE None]

\* (variant for C10: one rejected candidate rejects the whole batch)
translate_batch_all_or_nothing(v, items, out) ==
    IF out = Failure \/ (v # "llamacpp" /\ out = <<>>)
    THEN [k \in 1..Len(items) |-> None]
    ELSE LET translations == parse_batch_response(v, out, Len(items))
             ok(k) == Truthy(translations[k])
                      /\ validate_translation(v, items[k].key, translations[k],
                                              items[k].params) = Accept
         IN [k \in 1..Len(items) |->
                IF \A j \in 1..Len(items) : ok(j) THEN translations[k] ELSE None]

translate_batch(v, items, out) ==
    IF out = Failure \/ (v # "llamacpp" /\ out = <<>>)
    THEN [k \in 1..Len(items) |-> None]
    ELSE LET translations == parse_batch_response(v, out, Len(items))
         IN [k \in 1..Len(items) |->
                IF Truthy(translations[k])
                   /\ validate_translation(v, items[k].key, translations[k],
                                           items[k].params) = Accept
                THEN translations[k]
                ELSE None]

\* translate_string (llama.cpp) / translate_single (Ollama, workflow)
\* (variant for C11: the cleaned answer is returned without validation)
translate_single_unvalidated(v, item, out) ==
    IF out = Failure \/ (v # "llamacpp" /\ out = <<>>) THEN None
    ELSE clean_translation(out)

translate_single(v, item, out) ==
    IF out = Failure \/ (v # "llamacpp" /\ out = <<>>) THEN None
    ELSE LET translation == IF v = "llamacpp" THEN clean_translation(out)
                            ELSE Unquote(FirstLine(out))
         IN IF validate_translation(v, item.key, translation, item.params) = Accept
            THEN translation
            ELSE None

\* ------------------------------------------------------------ file access
\* load_json: None (here <<>>) for a missing or unparsable file
load_json(file) == IF file.state = "complete" THEN file.job ELSE <<>>

\* (variant for C3: the job as it was loaded is written, not the job in memory)
save_json_as_loaded(job) == CompleteFile(load_json(input))

\* save_json: the file holds the whole job
save_json(job) == CompleteFile(job)

\* "Handle resume": the checkpoint is used when --resume is given (the workflow
\* script has no such flag), the file exists and it parses
ResumesFrom(v, resume, ckpt) ==
    v # "workflow" /\ resume /\ ckpt.state # "absent" /\ load_json(ckpt) # <<>>

\* the job a run starts from
LoadData(v, resume, ckpt, inp) ==
    IF ResumesFrom(v, resume, ckpt) THEN load_json(ckpt) ELSE load_json(inp)

\* (variant for C15: the store is used whatever --force says)
FillFromLocaleAlways(job, store, force) ==
    IF store # <<>>
    THEN [i \in 1..Len(job) |->
            IF ~Truthy(job[i].translation) /\ StoreHas(store, job[i].key)
            THEN [job[i] EXCEPT !.translation = StoreGet(store, job[i].key),
                                !.from_locale = TRUE]
            ELSE job[i]]
    ELSE job

\* "mark already translated strings": items filled from the store
FillFromLocale(job, store, force) ==
    IF ~force /\ store # <<>>
    THEN [i \in 1..Len(job) |->
            IF ~Truthy(job[i].translation) /\ StoreHas(store, job[i].key)
            THEN [job[i] EXCEPT !.translation = StoreGet(store, job[i].key),
                                !.from_locale = TRUE]
            ELSE job[i]]
    ELSE job

\* (variant for C16: a stored translation is copied but the item stays pending)
PendingAll(job) == [i \in 1..Len(job) |-> i]

\* pending = [t for t in translations if not t.get('translation')]
RECURSIVE PendingFrom(_, _)
PendingFrom(job, i) ==
    IF i > Len(job) THEN <<>>
    ELSE (IF Truthy(job[i].translation) THEN <<>> ELSE << i >>) \o PendingFrom(job, i + 1)

Pending(job) == PendingFrom(job, 1)

\* (variant for C1: the slice starts one item early)
BatchIndicesOverlap(pend, start, size) ==
    SubSeq(pend, Max(start, 1), Min(start + size, Len(pend)))

\* (variant for C25: the slice is taken back to front)
BatchIndicesReversed(pend, start, size) ==
    [k \in 1..(Min(start + size, Len(pend)) - start) |->
        pend[Min(start + size, Len(pend)) + 1 - k]]

\* pending[batch_start:batch_end]
BatchIndices(pend, start, size) ==
    SubSeq(pend, start + 1, Min(start + size, Len(pend)))

BatchItems == [k \in 1..Len(BatchIndices(pending, batch_start, batch_size)) |->
                 data[BatchIndices(pending, batch_start, batch_size)[k]]]

\* (variant for C6: <= in place of <)
CheckpointDueInclusive(v, total, start, size, interval) ==
    IF v = "workflow" THEN (start + size) % interval <= size
    ELSE total % interval <= size

\* (variant for C7: the count before the batch is tested)
CheckpointDueBefore(v, total, start, size, interval) == start % interval < size

\* the condition under which a checkpoint is saved after a batch
CheckpointDue(v, total, start, size, interval) ==
    IF v = "workflow" THEN (start + size) % interval < size
    ELSE total % interval < size

\* an oracle request, as the items it asks about: build_batch_prompt numbers the
\* items of the batch in order, build_prompt asks about one
\* (variant for C26: the list is numbered from 0)
strings_text_from_zero(items) ==
    JoinLines([k \in 1..Len(items) |-> NumberedLine(k - 1, items[k].key)])

\* build_batch_prompt: the numbered list that follows "Texts:" in the prompt
strings_text(items) ==
    JoinLines([k \in 1..Len(items) |-> NumberedLine(k, items[k].key)])

BatchRequest(indices) ==
    [kind |-> "batch", items |-> indices, profile |-> get_language_config(variant, lang),
     texts |-> strings_text([k \in 1..Len(indices) |-> data[indices[k]]])]
SingleRequest(index) ==
    [kind |-> "single", items |-> << index >>, profile |-> get_language_config(variant, lang),
     texts |-> data[index].key]

\* ---------------------------------------------------------------- actions
InitAnyLang ==
    /\ variant \in Variants
    /\ lang \in Langs
    /\ batch_size \in BatchSizes(variant)
    /\ checkpoint_interval \in Intervals(variant)
    /\ input \in { CompleteFile(InputJob(n)) : n \in 1..MaxItems }
    /\ locale \in Locales
    /\ checkpoint = AbsentFile
    /\ output = AbsentFile
    /\ pc = "stopped"
    /\ data = <<>>
    /\ pending = <<>>
    /\ batch_start = 0
    /\ results = <<>>
    /\ pos = 0
    /\ failed = <<>>
    /\ total_processed = 0
    /\ run = 0
    /\ requests = <<>>
    /\ raw = None
    /\ batch_failed = FALSE
    /\ saved_at = 0
    /\ args_force = FALSE
    /\ counts = NoCounts
    /\ merges = 0
    /\ call = None
    /\ returned = None
    /\ calls = NoCalls
    /\ embedder = "none"
    /\ log = <<>>
    /\ status = "running"

\* a job in the default language
Init == InitAnyLang /\ lang = DefaultLang

\* a process starts: load the job, reuse the store, find the pending items;
\* with nothing pending write the output and return, with --dry-run return
Start(resume, force, dry_run) ==
    /\ pc \in {"stopped", "error", "done"}
    /\ variant = "workflow" => ~resume /\ ~dry_run
    /\ variant = "workflow" => is_language_supported(variant, lang)
    /\ LET job == FillFromLocale(LoadData(variant, resume, checkpoint, input), locale, force)
       IN /\ data' = job
          /\ pending' = Pending(job)
          /\ IF Pending(job) = <<>>
             THEN output' = save_json(job) /\ pc' = "done"
             ELSE IF dry_run
             THEN UNCHANGED output /\ pc' = "done"
             ELSE UNCHANGED output /\ pc' = "batch"
    /\ run' = run + 1
    /\ batch_start' = 0
    /\ results' = <<>>
    /\ pos' = 0
    /\ failed' = <<>>
    /\ total_processed' = 0
    /\ requests' = <<>>
    /\ raw' = None
    /\ batch_failed' = FALSE
    /\ saved_at' = 0
    /\ args_force' = force
    /\ calls' = NoCalls
    /\ UNCHANGED << config, merged, checkpoint >>

\* one batch request: build the prompt, call the backend, parse and validate
BatchCall ==
    /\ pc = "batch"
    /\ \E out \in BatchOutputs(BatchItems) :
          /\ results' = translate_batch(variant, BatchItems, out)
          /\ raw' = out
          /\ batch_failed' = (out = Failure)
    /\ requests' = Append(requests, BatchRequest(BatchIndices(pending, batch_start, batch_size)))
    /\ calls' = [calls EXCEPT !.batch = @ + 1]
    /\ pos' = 0
    /\ pc' = "process"
    /\ UNCHANGED << config, merged, args_force, checkpoint, output, data, pending, batch_start, failed,
                    total_processed, run, saved_at >>

\* the item the result loop is at
CurrentIndex == BatchIndices(pending, batch_start, batch_size)[pos + 1]

NextItem ==
    /\ pos' = pos + 1
    /\ pc' = IF pos + 1 = Len(results) THEN "checkpoint" ELSE "process"
    /\ raw' = None

\* the batch gave this item a translation: take it
AcceptFromBatch ==
    /\ pc = "process"
    /\ Truthy(results[pos + 1])
    /\ data' = [data EXCEPT ![CurrentIndex].translation = results[pos + 1]]
    /\ NextItem
    /\ UNCHANGED << config, merged, calls, args_force, checkpoint, output, pending, batch_start, results, failed,
                    total_processed, run, requests, batch_failed, saved_at >>

\* (variant for C13: a failed item is given its source text as translation)
SingleRetryKeepsSource ==
    /\ pc = "process"
    /\ ~Truthy(results[pos + 1])
    /\ \E out \in SingleOutputs(data[CurrentIndex]) :
          LET single == translate_single(variant, data[CurrentIndex], out)
          IN IF Truthy(single)
             THEN /\ data' = [data EXCEPT ![CurrentIndex].translation = single]
                  /\ UNCHANGED failed
             ELSE /\ failed' = Append(failed, data[CurrentIndex].key)
                  /\ data' = [data EXCEPT ![CurrentIndex].translation = data[CurrentIndex].key]
    /\ requests' = Append(requests, SingleRequest(CurrentIndex))
    /\ calls' = [calls EXCEPT !.single = @ + 1]
    /\ NextItem
    /\ UNCHANGED << config, merged, args_force, checkpoint, output, pending, batch_start,
                    results, total_processed, run, batch_failed, saved_at >>

\* (variant for C37: a single-item request that gives nothing is made again)
SingleRetryTwice ==
    /\ pc = "process"
    /\ ~Truthy(results[pos + 1])
    /\ \E first, second \in SingleOutputs(data[CurrentIndex]) :
          LET one == translate_single(variant, data[CurrentIndex], first)
              two == translate_single(variant, data[CurrentIndex], second)
              single == IF Truthy(one) THEN one ELSE two
          IN /\ IF Truthy(single)
                THEN /\ data' = [data EXCEPT ![CurrentIndex].translation = single]
                     /\ UNCHANGED failed
                ELSE /\ failed' = Append(failed, data[CurrentIndex].key)
                     /\ UNCHANGED data
             /\ calls' = [calls EXCEPT !.single = @ + (IF Truthy(one) THEN 1 ELSE 2)]
    /\ requests' = Append(requests, SingleRequest(CurrentIndex))
    /\ NextItem
    /\ UNCHANGED << config, merged, args_force, checkpoint, output, pending, batch_start, results,
                    total_processed, run, batch_failed, saved_at >>

\* the batch gave this item nothing: one single-item request
SingleRetry ==
    /\ pc = "process"
    /\ ~Truthy(results[pos + 1])
    /\ \E out \in SingleOutputs(data[CurrentIndex]) :
          LET single == translate_single(variant, data[CurrentIndex], out)
          IN IF Truthy(single)
             THEN /\ data' = [data EXCEPT ![CurrentIndex].translation = single]
                  /\ UNCHANGED failed
             ELSE /\ failed' = Append(failed, data[CurrentIndex].key)
                  /\ UNCHANGED data
    /\ requests' = Append(requests, SingleRequest(CurrentIndex))
    /\ calls' = [calls EXCEPT !.single = @ + 1]
    /\ NextItem
    /\ UNCHANGED << config, merged, args_force, checkpoint, output, pending, batch_start, results,
                    total_processed, run, batch_failed, saved_at >>

\* total_processed after the current batch
TotalAfterBatch ==
    IF variant = "workflow" THEN total_processed ELSE total_processed + Len(results)

DueNow ==
    CheckpointDue(variant, TotalAfterBatch, batch_start, batch_size, checkpoint_interval)

\* the end of a loop iteration: count, save the checkpoint when due, go on
AfterBatch ==
    /\ pc = "checkpoint"
    /\ total_processed' = TotalAfterBatch
    /\ checkpoint' = IF DueNow THEN save_json(data) ELSE checkpoint
    /\ saved_at' = IF DueNow THEN batch_start + Len(results) ELSE saved_at
    /\ batch_start' = batch_start + batch_size
    /\ pc' = IF batch_start + batch_size < Len(pending) THEN "batch" ELSE "final"
    /\ results' = <<>>
    /\ pos' = 0
    /\ batch_failed' = FALSE
    /\ requests' = <<>>
    /\ UNCHANGED << config, merged, calls, args_force, output, data, pending, failed, run, raw >>

\* the checkpoint file after the clean-up that follows the final save
CleanUp(ckpt, fails) == IF ckpt.state # "absent" /\ fails = <<>> THEN AbsentFile ELSE ckpt

\* (variant for C35: the output holds the translated items only)
FinalDropsFailed ==
    /\ pc = "final"
    /\ output' = save_json(SelectSeq(data, LAMBDA item : Truthy(item.translation)))
    /\ checkpoint' = CleanUp(checkpoint, failed)
    /\ pc' = "done"
    /\ UNCHANGED << config, merged, calls, args_force, data, pending, batch_start, results, pos, failed,
                    total_processed, run, requests, raw, batch_failed,
                    saved_at >>

\* after the loop: write the output, remove the checkpoint if nothing failed
Final ==
    /\ pc = "final"
    /\ output' = save_json(data)
    /\ checkpoint' = CleanUp(checkpoint, failed)
    /\ pc' = "done"
    /\ UNCHANGED << config, merged, calls, args_force, data, pending, batch_start, results, pos, failed,
                    total_processed, run, requests, raw, batch_failed,
                    saved_at >>

\* the process is gone, interrupted ("stopped") or ended by an exception that
\* nothing caught ("error"); only the files remain
ProcessEnds(how) ==
    /\ pc' = how
    /\ data' = <<>>
    /\ pending' = <<>>
    /\ batch_start' = 0
    /\ results' = <<>>
    /\ pos' = 0
    /\ failed' = <<>>
    /\ total_processed' = 0
    /\ requests' = <<>>
    /\ raw' = None
    /\ batch_failed' = FALSE
    /\ saved_at' = 0
    /\ args_force' = FALSE
    /\ calls' = NoCalls
    /\ UNCHANGED << config, merged, run >>

Stopped == ProcessEnds("stopped")

\* the process is interrupted between two file operations
Crash ==
    /\ pc \in {"batch", "process", "checkpoint", "final"}
    /\ Stopped
    /\ UNCHANGED << checkpoint, output >>

\* the process is interrupted inside save_json(checkpoint_path, data): open(path, 'w')
\* has truncated the file and json.dump has not finished
CrashInCheckpointSave ==
    /\ pc = "checkpoint"
    /\ DueNow
    /\ checkpoint' = PartialFile
    /\ Stopped
    /\ UNCHANGED output

\* the same inside save_json(output_path, data)
CrashInOutputSave ==
    /\ pc = "final"
    /\ output' = PartialFile
    /\ Stopped
    /\ UNCHANGED checkpoint

\* what open(path, 'w') and json.dump leave of a file when one of them raises
\* OSError: the file as it was, or truncated
FailedWrite(file) == { file, PartialFile }

\* (variant for C24: the exception of a checkpoint write is caught and the loop
\* goes on)
CheckpointSaveFailsSwallowed ==
    /\ pc = "checkpoint"
    /\ DueNow
    /\ checkpoint' \in FailedWrite(checkpoint)
    /\ total_processed' = TotalAfterBatch
    /\ batch_start' = batch_start + batch_size
    /\ pc' = IF batch_start + batch_size < Len(pending) THEN "batch" ELSE "final"
    /\ results' = <<>>
    /\ pos' = 0
    /\ batch_failed' = FALSE
    /\ requests' = <<>>
    /\ UNCHANGED << config, merged, calls, args_force, output, data, pending, failed, run, raw,
                    saved_at >>

\* save_json(checkpoint_path, data) raises: nothing catches it, the process ends
CheckpointSaveFails ==
    /\ pc = "checkpoint"
    /\ DueNow
    /\ checkpoint' \in FailedWrite(checkpoint)
    /\ ProcessEnds("error")
    /\ UNCHANGED output

\* save_json(output_path, data) raises
OutputSaveFails ==
    /\ pc = "final"
    /\ output' \in FailedWrite(output)
    /\ ProcessEnds("error")
    /\ UNCHANGED checkpoint

\* the first process of a job
Launch ==
    /\ run = 0
    /\ \E resume, force, dry_run \in BOOLEAN : Start(resume, force, dry_run)

\* a later process of the same job, after the earlier one returned or was interrupted
Restart ==
    /\ run > 0
    /\ run < MaxRuns
    /\ \E resume, force, dry_run \in BOOLEAN : Start(resume, force, dry_run)

\* merge_translations(lang, completed_path): fold the output file into the store
Merge ==
    /\ pc \in {"done", "merged"}
    /\ merges < MaxMerges
    /\ output.state = "complete"
    /\ locale' = merge_translations(locale, output.job).store
    /\ counts' = merge_translations(locale, output.job).counts
    /\ merges' = merges + 1
    /\ pc' = "merged"
    /\ UNCHANGED << embedder, log, status, calls, variant,
                    batch_size, checkpoint_interval, input, checkpoint, output,
                    data, pending, batch_start, results, pos, failed, total_processed,
                    run, requests, raw, batch_failed, saved_at, args_force, lang, called >>

\* the workflow script given a language that is not in its table: sys.exit(1)
\* before any step
ExitUnsupported ==
    /\ pc = "stopped"
    /\ run = 0
    /\ variant = "workflow"
    /\ ~is_language_supported(variant, lang)
    /\ pc' = "exited"
    /\ run' = run + 1
    /\ UNCHANGED << config, merged, calls, args_force, checkpoint, output, data, pending, batch_start,
                    results, pos, failed, total_processed, requests, raw, batch_failed,
                    saved_at >>

\* the steps of a translation process
Run ==
    \/ Launch
    \/ BatchCall
    \/ AcceptFromBatch
    \/ SingleRetry
    \/ AfterBatch
    \/ Final
    \/ Crash
    \/ CrashInCheckpointSave
    \/ CrashInOutputSave
    \/ CheckpointSaveFails
    \/ OutputSaveFails

\* one process, then the merge of its output
Next == Run \/ Merge

\* one process, from a job that has no checkpoint or output yet
Spec == Init /\ [][Next]_vars

\* a job followed through its restarts
InitRestart == Init /\ Len(input.job) <= RestartItems

NextRestart == Next \/ Restart

SpecRestart == InitRestart /\ [][NextRestart]_vars

\* one process in any of the languages
NextLang == Next \/ ExitUnsupported

SpecLang == InitAnyLang /\ [][NextLang]_vars

\* the merge alone, over every store and completed job of the bounds
InitMerge ==
    /\ variant = "workflow"
    /\ lang = DefaultLang
    /\ batch_size = 1
    /\ checkpoint_interval = WorkflowCheckpointInterval
    /\ input = AbsentFile
    /\ \E n \in 1..MaxItems : output \in { CompleteFile(job) : job \in CompletedJobs(n) }
    /\ locale \in Stores(MaxItems)
    /\ checkpoint = AbsentFile
    /\ pc = "done"
    /\ data = <<>>
    /\ pending = <<>>
    /\ batch_start = 0
    /\ results = <<>>
    /\ pos = 0
    /\ failed = <<>>
    /\ total_processed = 0
    /\ run = 1
    /\ requests = <<>>
    /\ raw = None
    /\ batch_failed = FALSE
    /\ saved_at = 0
    /\ args_force = FALSE
    /\ counts = NoCounts
    /\ merges = 0
    /\ call = None
    /\ returned = None
    /\ calls = NoCalls
    /\ embedder = "none"
    /\ log = <<>>
    /\ status = "running"

SpecMerge == InitMerge /\ [][Merge]_vars

\* --------------------------------------------- functions called on their own
\* no process, no files
NoJob ==
    /\ lang = DefaultLang
    /\ batch_size = 1
    /\ checkpoint_interval = 1
    /\ input = AbsentFile
    /\ locale = <<>>
    /\ checkpoint = AbsentFile
    /\ output = AbsentFile
    /\ pc = "stopped"
    /\ data = <<>>
    /\ pending = <<>>
    /\ batch_start = 0
    /\ results = <<>>
    /\ pos = 0
    /\ failed = <<>>
    /\ total_processed = 0
    /\ run = 0
    /\ requests = <<>>
    /\ raw = None
    /\ batch_failed = FALSE
    /\ saved_at = 0
    /\ args_force = FALSE
    /\ counts = NoCounts
    /\ merges = 0
    /\ calls = NoCalls
    /\ embedder = "none"
    /\ log = <<>>
    /\ status = "running"

\* a call that has not returned, and one that returned value
NotReturned == [done |-> FALSE, value |-> <<>>]
Returned(value) == [done |-> TRUE, value |-> value]

\* lines a model may write in answer to a batch request
ResponseLines ==
    { << "1", ".", " ", "A" >>,
      << "1", ".", " ", "B" >>,
      << "2", ".", " ", "C" >>,
      << " ", "2", ".", "\t", "D", " " >>,
      << "1", ".", "E" >>,
      << "0", ".", " ", "F" >>,
      << "3", ".", " ", "G" >>,
      << "1", ".", " ", "\"", "\"" >>,
      << "1", ".", " ", "[", "k", "e", "e", "p", "]" >>,
      << "1", ".", " ", "2", ".", " ", "H" >>,
      << "1", "." >>,
      << "1", ")", " ", "I" >>,
      << "N", "o", "t", "e", " ", "1", ".", " ", "J" >>,
      << "-", "1", ".", " ", "K" >>,
      <<>> }

\* the responses of up to n lines
Responses(n) ==
    { JoinLines(lines) : lines \in UNION { [1..m -> ResponseLines] : m \in 1..n } }

InitParse ==
    /\ NoJob
    /\ variant \in Variants
    /\ call \in [response : Responses(MaxLines), count : 1..MaxBatch]
    /\ returned = NotReturned

\* translations = parse_batch_response(raw_text, len(items))
Parse ==
    /\ ~returned.done
    /\ returned' = Returned(parse_batch_response(variant, call.response, call.count))
    /\ UNCHANGED << embedder, log, status, calls, variant,
                    batch_size, checkpoint_interval, input, locale, lang, call,
                    merged, args_force, checkpoint, output, pc, data, pending, batch_start,
                    results, pos, failed, total_processed, run, requests, raw,
                    batch_failed, saved_at >>

SpecParse == InitParse /\ [][Parse]_vars

\* source texts with their params: with a placeholder, without, one of ten
\* characters and a long one
Originals ==
    { [original |-> << "a", "{", "n", "}" >>, params |-> << << "n" >> >>],
      [original |-> << "a" >>, params |-> <<>>],
      [original |-> << "a", "b", "c", "d", "e", "f", "a", "b", "c", "d" >>, params |-> <<>>],
      [original |-> << "a", "b", "c", "d", "e", "f", "a", "b", "c", "d", "e" >>,
       params |-> << << "n" >> >>] }

\* candidates a model may give for them
Candidates ==
    { <<>>,
      << " " >>,
      << "\"", "\"" >>,
      << "'", "'" >>,
      << "\"", " ", "\"" >>,
      << "A" >>,
      << "A", "{", "n", "}" >>,
      << " ", "A", "{", "n", "}", "\n" >>,
      << "\"", "A", "{", "n", "}", "\"" >>,
      << "'", "A", "'" >>,
      << "A", "{", "x", "}" >>,
      << "{", "n", "}", "{", "x", "}" >>,
      << "{", "x", "}" >>,
      << "A", "A", "A", "A", "A" >>,
      << "A", "A", "A", "A", "A", "A" >>,
      << "A", "A", "A", "A", "{", "x", "}" >>,
      << "A", "A", "{", "n", "}", "{", "n", "}", "{", "n", "}", "{", "n", "}", "{", "n", "}",
         "{", "n", "}", "{", "n", "}" >>,
      << "A", "B", "C", "D", "E", "F", "A", "B", "C", "D", "E", "F" >>,
      None }

InitValidate ==
    /\ NoJob
    /\ variant \in Variants
    /\ call \in { [original |-> o.original, params |-> o.params, translation |-> t] :
                   o \in Originals, t \in Candidates }
    /\ returned = NotReturned

\* is_valid, error = validate_translation(item['key'], translation, params)
Validate ==
    /\ ~returned.done
    /\ returned' = Returned(validate_translation(variant, call.original, call.translation,
                                                  call.params))
    /\ UNCHANGED << embedder, log, status, calls, variant,
                    batch_size, checkpoint_interval, input, locale, lang, call,
                    merged, args_force, checkpoint, output, pc, data, pending, batch_start,
                    results, pos, failed, total_processed, run, requests, raw,
                    batch_failed, saved_at >>

SpecValidate == InitValidate /\ [][Validate]_vars

\* ---------------------------------------------- one job under each script
\* what a backend may return for a single-item request, an answer with a
\* label in front and one with an invented placeholder included
WiderSingleOutputs(item) ==
    LET i == KeyIndex(item.key)
    IN SingleOutputs(item) \cup
       { << "R", "e", "s", "u", "l", "t", ":", " " >> \o GoodText(i),
         GoodText(i) \o << "{", "x", "}" >> }

RECURSIVE WiderAnswerLines(_, _, _)
WiderAnswerLines(items, choice, k) ==
    IF k > Len(items) THEN <<>>
    ELSE LET i == KeyIndex(items[k].key)
             text == CASE choice[k] = "good" -> GoodText(i)
                       [] choice[k] = "bad" -> BadText(i)
                       [] OTHER -> GoodText(i) \o << "{", "x", "}" >>
             line == IF choice[k] = "omit" THEN <<>> ELSE << NumberedLine(k, text) >>
         IN line \o WiderAnswerLines(items, choice, k + 1)

\* what a backend may return for a batch request, invented placeholders included
WiderBatchOutputs(items) ==
    {Failure} \cup
    { JoinLines(WiderAnswerLines(items, choice, 1)) :
        choice \in [1..Len(items) -> {"omit", "good", "bad", "extra"}] }

\* the batch loop as a function of the backend's answers: the translation each
\* pending item ends with (None for a failed one), answers.batch[b] being the
\* answer to the b-th batch request and answers.single[k] the answer to a
\* single-item request for the k-th pending item
RunItems(v, job, size, answers) ==
    [k \in 1..Len(job) |->
        LET start == ((k - 1) \div size) * size
            indices == BatchIndices(Pending(job), start, size)
            items == [j \in 1..Len(indices) |-> job[indices[j]]]
            translation == translate_batch(v, items, answers.batch[(start \div size) + 1])[k - start]
        IN IF Truthy(translation) THEN translation
           ELSE LET single == translate_single(v, job[k], answers.single[k])
                IN IF Truthy(single) THEN single ELSE None]

\* the batch starts after whose batch the loop saves a checkpoint
CheckpointsAfter(v, n, size, interval) ==
    { start \in 0..(n - 1) :
        /\ start % size = 0
        /\ CheckpointDue(v, Min(start + size, n), start, size, interval) }

\* a run of script v over a job of pending items
RunJob(v, c) ==
    [ items |-> RunItems(v, c.job, c.size, c.answers),
      saves |-> CheckpointsAfter(v, Len(c.job), c.size, c.interval) ]

\* the answers a backend may give to the requests of a job cut into batches
Answers(job, size) ==
    LET batches == 1..((Len(job) + size - 1) \div size)
        items(b) == [j \in 1..Len(BatchIndices(Pending(job), (b - 1) * size, size)) |->
                        job[BatchIndices(Pending(job), (b - 1) * size, size)[j]]]
    IN { [batch |-> bs, single |-> ss] :
           bs \in { f \in [batches -> UNION { WiderBatchOutputs(items(b)) : b \in batches }] :
                      \A b \in batches : f[b] \in WiderBatchOutputs(items(b)) },
           ss \in { f \in [1..Len(job) ->
                             UNION { WiderSingleOutputs(job[k]) : k \in 1..Len(job) }] :
                      \A k \in 1..Len(job) : f[k] \in WiderSingleOutputs(job[k]) } }

\* the same job, batch size and answers for each script; the interval is the
\* one the workflow script fixes, which the other two take as an option
InitSame ==
    /\ NoJob
    /\ variant \in Variants
    /\ \E n \in 1..MaxBatch, size \in 1..MaxBatch :
          \E a \in Answers(InputJob(n), size) :
             call = [job |-> InputJob(n), size |-> size,
                     interval |-> WorkflowCheckpointInterval, answers |-> a]
    /\ returned = NotReturned

\* the script runs its batch loop over the job
RunVariant ==
    /\ ~returned.done
    /\ returned' = Returned(RunJob(variant, call))
    /\ UNCHANGED << embedder, log, status, calls, variant,
                    batch_size, checkpoint_interval, input, locale, lang, call,
                    merged, args_force, checkpoint, output, pc, data, pending, batch_start,
                    results, pos, failed, total_processed, run, requests, raw,
                    batch_failed, saved_at >>

SpecSame == InitSame /\ [][RunVariant]_vars

\* ------------------------------------------------------ the final summary
\* how many failed keys the summary lists: failed[:10], failed[:5] in the
\* Ollama script
ListLimit(v) == IF v = "ollama" THEN 5 ELSE 10

\* key[:60] + '...' if len(key) > 60 else key
KeyDisplay(key) ==
    IF Len(key) > 60 THEN SubSeq(key, 1, 60) \o << ".", ".", "." >> ELSE key

\* failed.append(item['key']) for each item that the retry left without a
\* translation, in the order of the loop
RECURSIVE FailedKeys(_, _, _)
FailedKeys(job, items, k) ==
    IF k > Len(job) THEN <<>>
    ELSE (IF items[k] = None THEN << job[k].key >> ELSE <<>>)
         \o FailedKeys(job, items, k + 1)

\* (variant for C36: every processed item is counted as successful)
SummaryAllSuccessful(v, processed, fails) ==
    [ processed |-> processed,
      successful |-> processed,
      failed |-> Len(fails),
      listed |-> [k \in 1..Min(Len(fails), ListLimit(v)) |-> KeyDisplay(fails[k])],
      more |-> Max(Len(fails) - ListLimit(v), 0) ]

\* what the summary prints: the three counts, the listed keys and the number
\* of keys announced as "... and N more"
Summary(v, processed, fails) ==
    [ processed |-> processed,
      successful |-> processed - Len(fails),
      failed |-> Len(fails),
      listed |-> [k \in 1..Min(Len(fails), ListLimit(v)) |-> KeyDisplay(fails[k])],
      more |-> Max(Len(fails) - ListLimit(v), 0) ]

\* a run of script v over a job of pending items, up to its summary
RunToSummary(v, c) ==
    LET items == RunItems(v, c.job, c.size, c.answers)
        fails == FailedKeys(c.job, items, 1)
    IN [ items |-> items, failed |-> fails, summary |-> Summary(v, Len(c.job), fails) ]

\* as many pending items as there are keys to tell apart
SummaryItems == Len(Letters)

\* answers of a backend that fails or answers well
PlainAnswers(job, size) ==
    LET batches == 1..((Len(job) + size - 1) \div size)
        items(b) == [j \in 1..Len(BatchIndices(Pending(job), (b - 1) * size, size)) |->
                        job[BatchIndices(Pending(job), (b - 1) * size, size)[j]]]
        good(b) == JoinLines(AnswerLines(items(b), [j \in 1..Len(items(b)) |-> "good"], 1))
    IN { [batch |-> [b \in batches |-> IF b \in answered THEN good(b) ELSE Failure],
          single |-> [k \in 1..Len(job) |->
                         IF k \in retried THEN GoodText(KeyIndex(job[k].key)) ELSE Failure]] :
           answered \in SUBSET batches, retried \in SUBSET (1..Len(job)) }

InitSummary ==
    /\ NoJob
    /\ variant \in Variants
    /\ \E n \in 1..SummaryItems, size \in 1..MaxBatch :
          \E a \in PlainAnswers(InputJob(n), size) :
             call = [job |-> InputJob(n), size |-> size,
                     interval |-> WorkflowCheckpointInterval, answers |-> a]
    /\ returned = NotReturned

\* the script runs its batch loop over the job and prints the summary
Summarise ==
    /\ ~returned.done
    /\ returned' = Returned(RunToSummary(variant, call))
    /\ UNCHANGED << embedder, log, status, calls, variant,
                    batch_size, checkpoint_interval, input, locale, lang, call,
                    merged, args_force, checkpoint, output, pc, data, pending, batch_start,
                    results, pos, failed, total_processed, run, requests, raw,
                    batch_failed, saved_at >>

SpecSummary == InitSummary /\ [][Summarise]_vars

\* ------------------------------------------------- a run left to itself
\* the statements of a process that nothing interrupts and whose file writes
\* succeed
Proceed ==
    \/ BatchCall
    \/ AcceptFromBatch
    \/ SingleRetry
    \/ AfterBatch
    \/ Final

NextLive == Launch \/ Proceed

\* every backend call returns and the process goes on to its next statement
Fairness == WF_vars(Proceed)

SpecLive == Init /\ [][NextLive]_vars /\ Fairness

\* -------------------------------------------- embedder.py: the main loop
\* lines read from stdin in one behaviour
MaxRequests == 3

EmbedTypes ==
    {"embed", "embed_batch", "embed_query", "embed_document", "embed_batch_documents"}

\* a stdin line by what the loop makes of it: blank once stripped, text that
\* json.loads refuses, a JSON value that is no object, or an object with its
\* "type", its "id" as JSON text ("absent" without the field) and, for an init
\* request, whether "model" is a string or a list
Lines ==
    { [json |-> j, type |-> "", id |-> "absent", model |-> "string"] :
        j \in {"blank", "invalid", "value"} }
    \cup { [json |-> "object", type |-> t, id |-> i, model |-> "string"] :
             t \in EmbedTypes \cup {"init", "shutdown", "ping"},
             i \in {"absent", "\"r1\"", "0"} }
    \cup { [json |-> "object", type |-> "init", id |-> i, model |-> "list"] :
             i \in {"absent", "\"r1\"", "0"} }

\* send_error(message, request_id): the id is added only if it is truthy;
\* request.get("id") is None, here "null", for a request without the field
send_error(message, request_id) ==
    [ type |-> "error", message |-> message,
      id |-> IF request_id \in {"absent", "null", "0", "\"\"", "false"} THEN "absent"
             ELSE request_id ]

\* (variant for C38: the embedder is replaced only once initialize returned)
AfterInitKeepsOld(e, outcome) == IF outcome = "ready" THEN "ready" ELSE e

\* the embedder of main after an init request: OnnxEmbedder(...) raises and
\* nothing is assigned, or the new embedder is assigned and initialize(...)
\* raises or sets _ready
AfterInit(e, outcome) ==
    CASE outcome = "constructor raises" -> e
      [] outcome = "initialize raises" -> "unready"
      [] outcome = "ready" -> "ready"

\* a line has been read: what it printed, the embedder and the loop after it
Read(line, out, e, st) ==
    /\ status = "running"
    /\ Len(log) < MaxRequests
    /\ log' = Append(log, [line |-> line, out |-> out])
    /\ embedder' = e
    /\ status' = st
    /\ UNCHANGED << variant, batch_size, checkpoint_interval, input, locale, lang, called,
                    merged, calls, args_force, checkpoint, output, pc, data, pending,
                    batch_start, results, pos, failed, total_processed, run, requests,
                    raw, batch_failed, saved_at >>

\* if not line: continue
SkipBlank ==
    \E line \in Lines :
        /\ line.json = "blank"
        /\ Read(line, <<>>, embedder, "running")

\* except json.JSONDecodeError: send_error(...); continue
InvalidJson ==
    \E line \in Lines :
        /\ line.json = "invalid"
        /\ Read(line, << send_error("Invalid JSON", "absent") >>, embedder, "running")

\* request.get("type") on a value that is no dict: AttributeError outside the
\* try block, main ends with the exception
NotAnObject ==
    \E line \in Lines :
        /\ line.json = "value"
        /\ Read(line, <<>>, embedder, "crashed")

\* req_type == "init"
InitRequest ==
    \E line \in Lines :
        /\ line.json = "object" /\ line.type = "init"
        /\ \E outcome \in IF line.model = "list" THEN {"constructor raises"}
                          ELSE {"initialize raises", "ready"} :
              Read(line,
                   CASE outcome = "constructor raises" ->
                          << send_error("exception", line.id) >>
                     [] outcome = "initialize raises" ->
                          << [type |-> "progress"], send_error("exception", line.id) >>
                     [] outcome = "ready" ->
                          << [type |-> "progress"], [type |-> "ready"] >>,
                   AfterInit(embedder, outcome), "running")

\* the five embed request types: an error without a ready embedder, else the
\* embedding(s), or the error of an exception raised by the embedder
EmbedRequest ==
    \E line \in Lines :
        /\ line.json = "object" /\ line.type \in EmbedTypes
        /\ \E raises \in BOOLEAN :
              Read(line,
                   IF embedder # "ready"
                   THEN << send_error("Embedder not initialized", line.id) >>
                   ELSE IF raises THEN << send_error("exception", line.id) >>
                   ELSE << [ type |-> IF line.type \in {"embed_batch", "embed_batch_documents"}
                                      THEN "embeddings" ELSE "embedding",
                             id |-> IF line.id = "absent" THEN "null" ELSE line.id ] >>,
                   embedder, "running")

\* req_type == "shutdown": dispose and break
ShutdownRequest ==
    \E line \in Lines :
        /\ line.json = "object" /\ line.type = "shutdown"
        /\ Read(line, <<>>, IF embedder = "none" THEN "none" ELSE "unready", "ended")

\* else: send_error(f"Unknown request type: {req_type}", req_id)
UnknownRequest ==
    \E line \in Lines :
        /\ line.json = "object" /\ line.type \notin EmbedTypes \cup {"init", "shutdown"}
        /\ Read(line, << send_error("Unknown request type", line.id) >>, embedder, "running")

\* the process started, nothing read yet
InitServe ==
    /\ NoJob
    /\ variant = "llamacpp"
    /\ call = None
    /\ returned = None

NextServe ==
    \/ SkipBlank
    \/ InvalidJson
    \/ NotAnObject
    \/ InitRequest
    \/ EmbedRequest
    \/ ShutdownRequest
    \/ UnknownRequest

SpecServe == InitServe /\ [][NextServe]_vars

\* ================================================================= claims
InRun == pc \in {"batch", "process", "checkpoint", "final"}

\* between two loop iterations, or after the last one
BetweenBatches == pc \in {"batch", "final"} /\ batch_start > 0

\* items processed so far / before the batch just finished
Processed == Min(batch_start, Len(pending))
ProcessedBefore == batch_start - batch_size

\* the batch just finished was followed by a save
SavedAfterLastBatch == saved_at = Processed

\* its count went past a multiple of the interval
CrossedInterval ==
    Processed \div checkpoint_interval > ProcessedBefore \div checkpoint_interval

LastRequest(reqs) == reqs[Len(reqs)]

\* ---- C1
\* C1: within a run no oracle request, batch or single-item, before or after a
\* checkpoint save, holds an item whose translation is already set.
C1_AcceptedNeverResent ==
    [][ Len(requests') > Len(requests) =>
          \A k \in 1..Len(LastRequest(requests').items) :
              ~Truthy(data[LastRequest(requests').items[k]].translation) ]_vars

\* a request is made after a checkpoint save while an earlier item is Accepted
C1_Witness ==
    /\ pc = "process"
    /\ saved_at > 0
    /\ requests # <<>>
    /\ \E k \in 1..saved_at : Truthy(data[pending[k]].translation)

\* ---- C2
\* C2: a process started after an interruption that left a checkpoint, with
\* --resume where the script has the flag, resumes from it: the checkpoint is a
\* complete job and only items whose translation is empty in it become pending.
C2_RestartResumesFromCheckpoint ==
    [][ \A force, dry_run \in BOOLEAN :
          ( /\ pc = "stopped"
            /\ run > 0
            /\ checkpoint.state # "absent"
            /\ Start(variant # "workflow", force, dry_run) )
          => /\ checkpoint.state = "complete"
             /\ \A k \in 1..Len(pending') :
                   ~Truthy(checkpoint.job[pending'[k]].translation) ]_vars

\* ---- C3
\* C3 as claimed: between two batches the checkpoint holds the translation of
\* every item Accepted so far in the run.
C3_CheckpointHasAllAccepted ==
    (pc = "batch" /\ batch_start > 0) =>
        \A k \in 1..Len(pending) :
            Truthy(data[pending[k]].translation) =>
                /\ checkpoint.state = "complete"
                /\ checkpoint.job[pending[k]].translation = data[pending[k]].translation

\* C3 amended: between two batches, the checkpoint last saved by the run (if it
\* saved one) holds the translation of every item Accepted in the batches up to
\* the one after which it was saved.
C3_CheckpointHasAcceptedUpToSave ==
    (BetweenBatches /\ saved_at > 0) =>
        /\ checkpoint.state = "complete"
        /\ \A k \in 1..saved_at :
              checkpoint.job[pending[k]].translation = data[pending[k]].translation

\* after a batch: an item Accepted before the save is in the checkpoint, one
\* Accepted after it is not
C3_Witness ==
    /\ BetweenBatches
    /\ saved_at > 0
    /\ saved_at < Processed
    /\ Truthy(data[pending[1]].translation)
    /\ Truthy(data[pending[Processed]].translation)
    /\ ~Truthy(checkpoint.job[pending[Processed]].translation)

\* ---- C4
\* C4: after a run that ends with a Failed item, the checkpoint holds the
\* translation of every item that succeeded in the run.
C4_RetainedCheckpointHasSucceeded ==
    (pc = "done" /\ failed # <<>>) =>
        \A k \in 1..Len(pending) :
            Truthy(data[pending[k]].translation) =>
                /\ checkpoint.state = "complete"
                /\ checkpoint.job[pending[k]].translation = data[pending[k]].translation

\* ---- C5
\* C5: whenever the process is interrupted, the checkpoint location holds a
\* complete snapshot (or nothing yet), never a partial one.
C5_CheckpointNeverPartial == checkpoint.state \in {"absent", "complete"}

\* ---- C6
\* C6 as claimed: after a batch a checkpoint is saved iff the cumulative count
\* crossed a multiple of the interval during the batch.
C6_SavedIffCrossed == BetweenBatches => (SavedAfterLastBatch <=> CrossedInterval)

\* C6 amended: a checkpoint is saved whenever a multiple of the interval was
\* crossed, and after a batch of full size only then; after a final batch shorter
\* than the batch size it may be saved with no multiple crossed.
C6_SavedIfCrossedAndFullOnlyIf ==
    BetweenBatches =>
        /\ CrossedInterval => SavedAfterLastBatch
        /\ (SavedAfterLastBatch /\ Processed - ProcessedBefore = batch_size) => CrossedInterval

\* both a multiple crossed by a full batch and saved, seen between two batches
C6_Witness ==
    /\ pc = "batch"
    /\ batch_start > batch_size
    /\ batch_size < checkpoint_interval
    /\ CrossedInterval
    /\ SavedAfterLastBatch

\* ---- C7
\* C7 as claimed: from the end of the first batch until the end of the run a
\* checkpoint exists.
C7_CheckpointAfterFirstBatch ==
    (InRun /\ batch_start > 0) => checkpoint.state # "absent"

\* C7 amended: the first batch, when of full size, is followed by a save exactly
\* when the batch size is at least the interval; and once the run has saved a
\* checkpoint, one exists until the end of its loop.
C7_CheckpointOnceSaved ==
    /\ (InRun /\ saved_at > 0) => checkpoint.state = "complete"
    /\ (BetweenBatches /\ batch_start = batch_size /\ Processed = batch_size) =>
          (saved_at > 0 <=> batch_size >= checkpoint_interval)

\* the first save of a run comes after its second batch
C7_Witness ==
    /\ pc = "batch"
    /\ batch_start = 2 * batch_size
    /\ saved_at = batch_start
    /\ batch_size < checkpoint_interval

\* ---- C8
\* a step that ends a run whose pending items are all terminal
RunEnds ==
    \/ pc = "final" /\ pc' = "done"
    \/ run' = run + 1 /\ pc' = "done" /\ pending' = <<>>

\* C8: at the end of such a run, with zero Failed no checkpoint exists
\* afterwards, with a Failed item the checkpoint is left as it was.
C8_CheckpointAtEnd ==
    [][ RunEnds => IF failed' = <<>> THEN checkpoint'.state = "absent"
                   ELSE checkpoint' = checkpoint ]_vars

\* ---- C9
\* the single-item requests made for data index i in this loop iteration
SinglesFor(i) ==
    Cardinality({ r \in 1..Len(requests) : requests[r] = SingleRequest(i) })

\* C9: after a failed batch call every item of the batch is left to the
\* single-item retry (no result, no translation, not Failed until its own turn),
\* and by the end of the iteration each has had exactly one single-item request.
C9_FailedBatchRetriesAll ==
    (pc \in {"process", "checkpoint"} /\ batch_failed) =>
        /\ \A k \in 1..Len(results) : results[k] = None
        /\ \A k \in 1..Len(results) :
              LET i == BatchIndices(pending, batch_start, batch_size)[k]
              IN IF k > pos /\ pc = "process"
                 THEN /\ ~Truthy(data[i].translation)
                      /\ \A f \in 1..Len(failed) : failed[f] # data[i].key
                      /\ SinglesFor(i) = 0
                 ELSE SinglesFor(i) = 1

\* a failed batch of two whose items were retried, one Accepted and one Failed
C9_Witness ==
    /\ pc = "checkpoint"
    /\ batch_failed
    /\ Len(results) = 2
    /\ Truthy(data[pending[batch_start + 1]].translation)
    /\ ~Truthy(data[pending[batch_start + 2]].translation)

\* ---- C10
\* the lines of a response that carry the number n
RECURSIVE LinesNumbered(_, _)
LinesNumbered(lines, n) ==
    IF lines = <<>> THEN <<>>
    ELSE (IF MatchNumbered(Strip(lines[1])).matched /\ MatchNumbered(Strip(lines[1])).num = n
          THEN << lines[1] >> ELSE <<>>) \o LinesNumbered(Tail(lines), n)

\* the candidate of position k, parsed from the lines numbered k alone
OwnCandidate(k) ==
    parse_batch_response(variant, JoinLines(LinesNumbered(SplitLines(raw), k)),
                         Len(results))[k]

\* C10: after a batch call that returned text, the result of each item is its own
\* parsed candidate if that exists and passes validation and is none otherwise,
\* whatever the siblings got; an item with a result is Accepted with it, an item
\* without is retried alone, and no other item changes.
C10_ItemsJudgedAlone ==
    /\ [](( pc = "process" /\ pos = 0 /\ raw # None /\ raw # Failure ) =>
            \A k \in 1..Len(results) :
                results[k] =
                    IF Truthy(OwnCandidate(k))
                       /\ validate_translation(variant, BatchItems[k].key, OwnCandidate(k),
                                               BatchItems[k].params) = Accept
                    THEN OwnCandidate(k)
                    ELSE None)
    /\ [][ (pc = "process" /\ pc' # "stopped") =>
             /\ IF Truthy(results[pos + 1])
                THEN /\ data'[CurrentIndex].translation = results[pos + 1]
                     /\ requests' = requests
                ELSE requests' = Append(requests, SingleRequest(CurrentIndex))
             /\ \A j \in 1..Len(data) : j # CurrentIndex => data'[j] = data[j] ]_vars

\* a batch answer with a valid candidate for one item and a rejected one for a sibling
C10_Witness ==
    /\ pc = "process"
    /\ pos = 0
    /\ raw # None
    /\ raw # Failure
    /\ Len(results) >= 2
    /\ \E k, j \in 1..Len(results) :
          /\ Truthy(results[k])
          /\ results[j] = None
          /\ Truthy(parse_batch_response(variant, raw, Len(results))[j])

\* ---- C11
IsFailed(i) == \E f \in 1..Len(failed) : failed[f] = data[i].key

\* C11: at the end of a loop iteration every item the batch left without a result
\* has had exactly one single-item request and is either Accepted, with a text
\* that passes validation, or Failed; an item with a batch result has had none and
\* is not Failed; and a key enters the failed list only in the step that makes the
\* single-item request for it and leaves its translation empty.
C11_FailedOnlyAfterOwnRetry ==
    /\ [](pc = "checkpoint" =>
            \A k \in 1..Len(results) :
                LET i == BatchIndices(pending, batch_start, batch_size)[k]
                IN IF results[k] = None
                   THEN /\ SinglesFor(i) = 1
                        /\ Truthy(data[i].translation) # IsFailed(i)
                        /\ Truthy(data[i].translation) =>
                              validate_translation(variant, data[i].key, data[i].translation,
                                                   data[i].params) = Accept
                   ELSE SinglesFor(i) = 0 /\ ~IsFailed(i))
    /\ [][ (failed' # failed /\ pc' \notin {"stopped", "error"} /\ run' = run) =>
             /\ pc = "process"
             /\ failed' = Append(failed, data[CurrentIndex].key)
             /\ requests' = Append(requests, SingleRequest(CurrentIndex))
             /\ ~Truthy(data'[CurrentIndex].translation) ]_vars

\* a batch that answered: one item it left out was retried and Accepted, another
\* was retried and Failed
C11_Witness ==
    /\ pc = "checkpoint"
    /\ ~batch_failed
    /\ \E k, j \in 1..Len(results) :
          /\ results[k] = None
          /\ results[j] = None
          /\ Truthy(data[BatchIndices(pending, batch_start, batch_size)[k]].translation)
          /\ IsFailed(BatchIndices(pending, batch_start, batch_size)[j])

\* ---- C12
\* no request of the run holds an item whose key is in the failed list
FailedNotCalledAgain ==
    Len(requests') > Len(requests) =>
        \A k \in 1..Len(LastRequest(requests').items) :
            \A f \in 1..Len(failed) :
                failed[f] # data[LastRequest(requests').items[k]].key

\* the next run of the job has the key among its pending items
PendingAgain(key) == \E k \in 1..Len(pending') : data'[pending'[k]].key = key

RecordsOutcomes(file, n) ==
    /\ file.state = "complete"
    /\ \A k \in 1..n :
          IF IsFailed(pending[k]) THEN file.job[pending[k]].translation = <<>>
          ELSE Truthy(file.job[pending[k]].translation)

\* C13: in the output written at the end of a run, and in every checkpoint the run
\* saved, each Failed item has an empty translation (it is still pending) and each
\* Accepted item a non-empty one.
C13_FailedStayPendingInFiles ==
    /\ (pc = "done" /\ pending # <<>> /\ output.state # "absent") =>
          RecordsOutcomes(output, Len(pending))
    /\ (pc \in {"batch", "process", "checkpoint", "final", "done"} /\ saved_at > 0
        /\ checkpoint.state # "absent") =>
          RecordsOutcomes(checkpoint, saved_at)

\* a finished run with a Failed and an Accepted item, its output and its checkpoint
C13_Witness ==
    /\ pc = "done"
    /\ saved_at > 0
    /\ checkpoint.state = "complete"
    /\ output.state = "complete"
    /\ \E k, j \in 1..saved_at :
          /\ IsFailed(pending[k])
          /\ Truthy(output.job[pending[j]].translation)

\* ---- C14
\* the store has the same entry, or none, for the key before and after the step
SameEntry(key) ==
    /\ StoreHas(locale', key) = StoreHas(locale, key)
    /\ StoreHas(locale, key) => StoreGet(locale', key) = StoreGet(locale, key)

\* C14: the merge of a run's output leaves the store entry of every Failed item's
\* key as it was (present with the same value, or absent), and when every item of
\* the job is Failed the store after the merge is the store before it.
C14_MergeSkipsFailed ==
    [][ (pc = "done" /\ pc' = "merged") =>
          /\ \A f \in 1..Len(failed) : SameEntry(failed[f])
          /\ (\A i \in 1..Len(data) : IsFailed(i)) => locale' = locale ]_vars

\* merged: a job of two items, both Failed in a forced run, one with its key in the store
C14_Witness ==
    /\ pc = "merged"
    /\ Len(data) >= 2
    /\ \A i \in 1..Len(data) : IsFailed(i)
    /\ \E f \in 1..Len(failed) : StoreHas(locale, failed[f])

\* ---- C15
\* item i is in the pending set the step computes
PendingNext(i) == \E k \in 1..Len(pending') : pending'[k] = i

InPending(i) == \E k \in 1..Len(pending) : pending[k] = i

InRequests(i) ==
    \E r \in 1..Len(requests) : \E k \in 1..Len(requests[r].items) : requests[r].items[k] = i

\* C16 as claimed: in a run without force, every item whose key is in the store
\* has the store's value as translation, is tagged as reused, and is in no request.
C16_StoredItemsReused ==
    (InRun /\ ~args_force) =>
        \A i \in 1..Len(data) :
            StoreHas(locale, data[i].key) =>
                /\ data[i].translation = StoreGet(locale, data[i].key)
                /\ data[i].from_locale
                /\ ~InPending(i)
                /\ ~InRequests(i)

\* C16 amended: in a run without force, an item whose key is in the store and whose
\* translation is empty in the job the run loads is filled with the store's value
\* and tagged as reused; an item whose key is in the store is in no request of the
\* run, filled or translated already.
C16_StoredItemsNotRequested ==
    (InRun /\ ~args_force) =>
        \A i \in 1..Len(data) :
            StoreHas(locale, data[i].key) =>
                /\ Truthy(data[i].translation)
                /\ data[i].from_locale => data[i].translation = StoreGet(locale, data[i].key)
                /\ (run = 1 \/ variant = "workflow") => data[i].from_locale
                /\ ~InPending(i)
                /\ ~InRequests(i)

\* a run without force at a request for another item, the stored one reused
C16_Witness ==
    /\ pc = "process"
    /\ ~args_force
    /\ requests # <<>>
    /\ \E i \in 1..Len(data) :
          /\ StoreHas(locale, data[i].key)
          /\ data[i].from_locale
          /\ data[i].translation = StoreGet(locale, data[i].key)

Accepted == { i \in 1..Len(output.job) : Truthy(output.job[i].translation) }
AbsentKeys == { i \in Accepted : ~StoreHas(locale, output.job[i].key) }
ChangedKeys ==
    { i \in Accepted : /\ StoreHas(locale, output.job[i].key)
                       /\ StoreGet(locale, output.job[i].key) # output.job[i].translation }
SameKeys ==
    { i \in Accepted : /\ StoreHas(locale, output.job[i].key)
                       /\ StoreGet(locale, output.job[i].key) = output.job[i].translation }

\* C18: a merge inserts the translation of every accepted item whose key the
\* store lacks and counts it new, overwrites the value of every key it holds with
\* another value and counts it updated, leaves the entry of every key it holds
\* with the same value and counts it unchanged, and touches no other entry.
C18_MergeClassifies ==
    [][ (merges' = merges + 1) =>
          /\ \A i \in AbsentKeys \cup ChangedKeys :
                /\ StoreHas(locale', output.job[i].key)
                /\ StoreGet(locale', output.job[i].key) = output.job[i].translation
          /\ \A i \in SameKeys : SameEntry(output.job[i].key)
          /\ \A e \in 1..Len(locale) :
                (\A i \in Accepted : output.job[i].key # locale[e].key)
                    => SameEntry(locale[e].key)
          /\ Len(locale') = Len(locale) + Cardinality(AbsentKeys)
          /\ counts' = [new |-> Cardinality(AbsentKeys),
                        updated |-> Cardinality(ChangedKeys),
                        unchanged |-> Cardinality(SameKeys)] ]_vars

\* one merge that inserted a key, overwrote another and left a third
C18_Witness ==
    /\ pc = "merged"
    /\ merges = 1
    /\ counts.new > 0
    /\ counts.updated > 0
    /\ counts.unchanged > 0

\* ---- C19
\* C19: a store that a merge of the job file has produced is what a further merge
\* of the same file produces: merge(merge(S, A), A) = merge(S, A).
C19_MergeIdempotent ==
    pc = "merged" => merge_translations(locale, output.job).store = locale

\* the store after a first merge that inserted and overwrote
C19_Witness ==
    /\ pc = "merged"
    /\ merges = 1
    /\ counts.new > 0
    /\ counts.updated > 0

\* ---- C20
\* C20: a second merge of the same job file counts nothing new and nothing
\* updated, and every accepted item unchanged.
C20_SecondMergeAllUnchanged ==
    merges >= 2 =>
        counts = [new |-> 0, updated |-> 0, unchanged |-> Cardinality(Accepted)]

\* after the second merge of a file with two accepted items
C20_Witness ==
    /\ merges = 2
    /\ counts.unchanged >= 2
    /\ Len(output.job) > Cardinality(Accepted)


\* ---- C21
\* C21: a merge deletes no key: every key of the store before it is a key of
\* the store after it, which has at least as many entries.
C21_MergeKeepsKeys ==
    [][ (merges' = merges + 1) =>
          /\ \A e \in 1..Len(locale) : StoreHas(locale', locale[e].key)
          /\ Len(locale') >= Len(locale) ]_vars

\* a first merge over a store with an entry for none of the accepted items
C21_Witness ==
    /\ pc = "merged"
    /\ merges = 1
    /\ counts.new > 0
    /\ \E e \in 1..Len(locale) :
          \A i \in Accepted : output.job[i].key # locale[e].key

\* ---- C22
\* the orders in which the items of a job can stand
Orderings(job) ==
    { [k \in 1..Len(job) |-> job[f[k]]] :
        f \in { g \in [1..Len(job) -> 1..Len(job)] :
                  \A a, b \in 1..Len(job) : a # b => g[a] # g[b] } }

Sorted(store) == \A k \in 1..(Len(store) - 1) : KeyLess(store[k].key, store[k + 1].key)

\* C22: the store a merge writes is sorted by key, and it is the store the merge
\* of the same accepted items in any other order writes.
C22_MergeSortedAnyOrder ==
    [][ (merges' = merges + 1 /\ Accepted # {}) =>
          /\ Sorted(locale')
          /\ \A job \in Orderings(output.job) :
                merge_translations(locale, job).store = locale' ]_vars

\* a merge that inserted two keys beside an entry the store had
C22_Witness ==
    /\ pc = "merged"
    /\ merges = 1
    /\ counts.new >= 2
    /\ Len(locale) >= 3


\* ---- C23
\* C23: a run whose language code is not in the table of its script makes no
\* oracle request, and no request is rendered with a profile made up for a code
\* the table lacks.
C23_UnknownLanguageAborts ==
    /\ ~is_language_supported(variant, lang) => requests = <<>>
    /\ \A r \in 1..Len(requests) : requests[r].profile \in LANGUAGE_CONFIG(variant)


\* ---- C24
\* a step at which a write that is due does not leave the file written
WriteNotDone ==
    \/ pc = "checkpoint" /\ DueNow /\ checkpoint' # save_json(data)
    \/ pc = "final" /\ output' # save_json(data)

\* C24: when a checkpoint or output write that is due does not complete, the
\* process ends there, with the error when the write raised one; after an error
\* nothing happens but the start of another run, so the run makes no further
\* oracle request and its output is not merged.
C24_FailedWriteEndsRun ==
    [][ /\ WriteNotDone => pc' \in {"stopped", "error"}
        /\ pc = "error" => run' = run + 1
        /\ pc' = "error" => (pc = "checkpoint" /\ DueNow) \/ pc \in {"final", "error"} ]_vars

\* a run ended by the error of a checkpoint write that truncated the file, items
\* of the job still pending
C24_Witness ==
    /\ pc = "error"
    /\ checkpoint.state = "partial"
    /\ output.state = "absent"


\* ---- C25
\* the positions of pending a loop iteration that starts at `start` covers
BatchSpan(start) == (start + 1)..Min(start + batch_size, Len(pending))

\* C25: the pending items are the items with an empty translation in the order
\* of the job; the first batch starts at the first of them, each batch request
\* holds the next batch_size of them in that order (the last one what is left),
\* the next batch starts where the last ended, and the loop ends when none is left.
C25_PendingPartitioned ==
    [][ /\ (run' = run + 1 /\ pc' # "exited") =>
              /\ batch_start' = 0
              /\ \A k \in 1..(Len(pending') - 1) : pending'[k] < pending'[k + 1]
              /\ \A i \in 1..Len(data') :
                    (\E k \in 1..Len(pending') : pending'[k] = i)
                        <=> ~Truthy(data'[i].translation)
        /\ (pc = "batch" /\ pc' = "process") =>
              /\ BatchSpan(batch_start) # {}
              /\ Cardinality(BatchSpan(batch_start)) = batch_size
                    \/ Min(batch_start + batch_size, Len(pending)) = Len(pending)
              /\ LastRequest(requests').kind = "batch"
              /\ LastRequest(requests').items =
                    [k \in 1..Cardinality(BatchSpan(batch_start)) |-> pending[batch_start + k]]
        /\ (pc = "checkpoint" /\ pc' = "batch") =>
              /\ batch_start' = batch_start + batch_size
              /\ batch_start' < Len(pending)
        /\ (pc = "checkpoint" /\ pc' = "final") => batch_start + batch_size >= Len(pending)
        /\ InRun => UNCHANGED pending \/ pc' \in {"stopped", "error"} ]_vars

\* the request of a last batch that is shorter than the batches before it
C25_Witness ==
    /\ pc = "process"
    /\ batch_start > 0
    /\ batch_size > 1
    /\ Len(LastRequest(requests).items) < batch_size
    /\ LastRequest(requests).kind = "batch"


\* ---- C26
\* batches that hold one item twice
RepeatedBatches ==
    UNION { [1..n -> {InputItem(1), InputItem(2)}] : n \in 1..MaxBatch }

\* the list has one line per item, and line k reads as number k and the key of
\* the k-th item
NumberedInOrder(text, items) ==
    /\ Len(SplitLines(text)) = Len(items)
    /\ \A k \in 1..Len(items) :
          /\ MatchNumbered(SplitLines(text)[k]).matched
          /\ MatchNumbered(SplitLines(text)[k]).num = k
          /\ MatchNumbered(SplitLines(text)[k]).rest = items[k].key

\* C26: the list of a batch request numbers the items of the batch 1..N in their
\* order, one line each also when two items have one key; the result of position
\* k is none or the candidate parsed for number k, and it is given to the k-th
\* item of the batch.
C26_NumberedInInputOrder ==
    /\ [](\A items \in RepeatedBatches : NumberedInOrder(strings_text(items), items))
    /\ []((pc = "process" /\ pos = 0 /\ requests # <<>>) =>
            /\ NumberedInOrder(requests[1].texts, BatchItems)
            /\ \A k \in 1..Len(results) :
                  Truthy(results[k]) =>
                      results[k] = parse_batch_response(variant, raw, Len(results))[k])
    /\ [][ (pc = "process" /\ Truthy(results[pos + 1]) /\ pc' \in {"process", "checkpoint"}) =>
              data'[pending[batch_start + pos + 1]].translation = results[pos + 1] ]_vars

\* the second item of a batch of two takes the candidate of line 2
C26_Witness ==
    /\ pc \in {"process", "checkpoint"}
    /\ pos = 2
    /\ Truthy(results[2])
    /\ data[pending[batch_start + 2]].translation = results[2]
    /\ results[1] # results[2]


\* ---- C27
\* the lines of the response given to the parser
CallLines == SplitLines(Strip(call.response))

\* the cleaned remainder of a numbered line
Candidate(line) == NormaliseCandidate(variant, MatchNumbered(Strip(line)).rest)

\* the lines that claim position k
Claiming(k) == LinesNumbered(CallLines, k)

RECURSIVE NonEmptyCandidates(_)
NonEmptyCandidates(lines) ==
    IF lines = <<>> THEN <<>>
    ELSE (IF Candidate(lines[1]) # <<>> THEN << Candidate(lines[1]) >> ELSE <<>>)
         \o NonEmptyCandidates(Tail(lines))

Last(seq) == seq[Len(seq)]

\* C27 as claimed: a position that several lines claim has the candidate of the
\* last of them.
C27_LastLineWins ==
    returned.done =>
        \A k \in 1..call.count :
            Len(Claiming(k)) >= 2 =>
                returned.value[k] = IF Candidate(Last(Claiming(k))) = <<>> THEN None
                              ELSE Candidate(Last(Claiming(k)))

\* C27 amended: it has the candidate of the last of them whose cleaned remainder
\* is not empty, and none if all are empty.
C27_LastNonEmptyLineWins ==
    returned.done =>
        \A k \in 1..call.count :
            Len(Claiming(k)) >= 2 =>
                returned.value[k] = IF NonEmptyCandidates(Claiming(k)) = <<>> THEN None
                              ELSE Last(NonEmptyCandidates(Claiming(k)))

\* "1. A\n1. B" parsed with expected_count = 1 gives B
C27_Witness ==
    /\ call.response = << "1", ".", " ", "A", "\n", "1", ".", " ", "B" >>
    /\ call.count = 1
    /\ returned = Returned(<< << "B" >> >>)


\* ---- C28
\* a trimmed line that is digits, a period and a remainder
NumberPeriodRemainder(l) ==
    \E d \in 1..(Len(l) - 2) : (\A j \in 1..d : IsDigit(l[j])) /\ l[d + 1] = "."

\* the same with whitespace between the period and the remainder
NumberPeriodSpaceRemainder(l) ==
    \E d \in 1..(Len(l) - 3) :
        (\A j \in 1..d : IsDigit(l[j])) /\ l[d + 1] = "." /\ IsSpace(l[d + 2])

HasShape(l, spaced) ==
    IF spaced THEN NumberPeriodSpaceRemainder(l) ELSE NumberPeriodRemainder(l)

RECURSIVE KeepLines(_, _)
KeepLines(lines, spaced) ==
    IF lines = <<>> THEN <<>>
    ELSE (IF HasShape(Strip(lines[1]), spaced) THEN << lines[1] >> ELSE <<>>)
         \o KeepLines(Tail(lines), spaced)

\* what the parser gives for the lines of the response that have the shape
ParsedFrom(spaced) ==
    parse_batch_response(variant, JoinLines(KeepLines(CallLines, spaced)), call.count)

\* C28 as claimed: the result is the result of the lines that read integer,
\* period, whitespace, remainder; no other line changes a position.
C28_OnlySpacedNumberedLines ==
    returned.done => returned.value = ParsedFrom(TRUE)

\* C28 amended: the result is the result of the lines that, trimmed, read
\* integer, period, remainder, with or without whitespace after the period; no
\* other line changes a position.
C28_OnlyNumberedLines ==
    returned.done => returned.value = ParsedFrom(FALSE)

\* a response of a commentary line and an answer
C28_Witness ==
    /\ call.response = << "N", "o", "t", "e", " ", "1", ".", " ", "J", "\n", "2", ".", " ", "C" >>
    /\ call.count = 2
    /\ returned = Returned(<< None, << "C" >> >>)


\* ---- C29
\* the lines of the response but the numbered ones whose number is not in 1..count
RECURSIVE DropOutOfRange(_)
DropOutOfRange(lines) ==
    IF lines = <<>> THEN <<>>
    ELSE (IF /\ NumberPeriodRemainder(Strip(lines[1]))
             /\ MatchNumbered(Strip(lines[1])).num \notin 1..call.count
          THEN <<>> ELSE << lines[1] >>)
         \o DropOutOfRange(Tail(lines))

\* C29: the result has expected_count positions; it is the result of the response
\* without the numbered lines whose position is outside [0, expected_count); a
\* position that no line gives a candidate is none.
C29_CountPositionsInRange ==
    returned.done =>
        /\ Len(returned.value) = call.count
        /\ returned.value =
              parse_batch_response(variant, JoinLines(DropOutOfRange(CallLines)), call.count)
        /\ \A k \in 1..call.count :
              NonEmptyCandidates(Claiming(k)) = <<>> => returned.value[k] = None

\* "0. F\n3. G" parsed with expected_count = 2: both lines out of range
C29_Witness ==
    /\ call.response = << "0", ".", " ", "F", "\n", "3", ".", " ", "G" >>
    /\ call.count = 2
    /\ returned = Returned(<< None, None >>)


\* ---- C30
\* the candidate trimmed and with its quotes removed, none counting as empty
Trimmed == IF call.translation = None THEN <<>> ELSE ValidatorView(variant, call.translation)

\* the four checks, each on its own
FailsEmpty == Trimmed = <<>>

FailsMissingParameter ==
    \E i \in 1..Len(call.params) :
        /\ Contains(Placeholder(call.params[i]), call.original)
        /\ ~Contains(Placeholder(call.params[i]), Trimmed)

FailsSpuriousPlaceholder ==
    FindPlaceholders(Trimmed, 1) \ FindPlaceholders(call.original, 1) # {}

FailsLengthRatio == BadLengthRatio(call.original, Trimmed)

\* C30: validate returns the reason of the first check that fails, in the order
\* EmptyTranslation, MissingParameter, SpuriousPlaceholder, SuspiciousLengthRatio,
\* and accepts exactly when none of the four fails.
C30_FirstFailingReason ==
    returned.done =>
        returned.value =
            IF FailsEmpty THEN EmptyTranslation
            ELSE IF FailsMissingParameter THEN MissingParameter
            ELSE IF FailsSpuriousPlaceholder THEN SpuriousPlaceholder
            ELSE IF FailsLengthRatio THEN SuspiciousLengthRatio
            ELSE Accept


\* ---- C31
\* the candidate as the model gave it, none counting as the empty text
Given == IF call.translation = None THEN <<>> ELSE call.translation

\* a placeholder of params that the original holds and the candidate lacks
LacksParameter ==
    \E i \in 1..Len(call.params) :
        /\ Contains(Placeholder(call.params[i]), call.original)
        /\ ~Contains(Placeholder(call.params[i]), Given)

\* C31 as stated: an accepted candidate holds every placeholder of params that
\* the original holds, and a candidate lacking one is always rejected with
\* MissingParameter.
C31_LackingAlwaysMissingParameter ==
    returned.done =>
        /\ returned.value = Accept => ~LacksParameter
        /\ LacksParameter => returned.value = MissingParameter

\* C31 amended: an accepted candidate holds every placeholder of params that
\* the original holds; a candidate lacking one is always rejected, with
\* EmptyTranslation when it is blank and with MissingParameter otherwise.
C31_LackingRejected ==
    returned.done =>
        /\ returned.value = Accept => ~LacksParameter
        /\ LacksParameter =>
              returned.value = IF Strip(Given) = <<>> THEN EmptyTranslation
                               ELSE MissingParameter

\* "A" offered for "a{n}" is rejected for the missing {n}
C31_Witness ==
    /\ returned.done
    /\ call.original = << "a", "{", "n", "}" >>
    /\ call.translation = << "A" >>
    /\ returned.value = MissingParameter


\* ---- C32
\* C32: in every variant a candidate holding a {...} token that the original
\* lacks is rejected, so no accepted translation holds such a token.
C32_NoSpuriousPlaceholderAccepted ==
    returned.done /\ returned.value = Accept =>
        FindPlaceholders(Given, 1) \subseteq FindPlaceholders(call.original, 1)


\* ---- C33
\* ten times the trimmed, unquoted candidate's length and the original's
\* length, none below 1: the ratio is below 0.1 or above 5.0
RatioOutside ==
    LET m == IF Len(call.original) >= 1 THEN Len(call.original) ELSE 1
    IN 10 * Len(Trimmed) < m \/ Len(Trimmed) > 5 * m

\* none of the checks that the validator runs before the length check fails
ReachesLengthCheck ==
    /\ Strip(Given) # <<>>
    /\ ~FailsMissingParameter
    /\ variant = "ollama" \/ ~FailsSpuriousPlaceholder

\* C33 as stated: a candidate is rejected with SuspiciousLengthRatio exactly
\* when its length ratio is outside [0.1, 5.0].
C33_LengthRatioExactly ==
    returned.done => (returned.value = SuspiciousLengthRatio <=> RatioOutside)

\* C33 amended: a candidate that passes the earlier checks is rejected with
\* SuspiciousLengthRatio exactly when 10 * len < max(len(original), 1) or
\* len > 5 * max(len(original), 1), len being the length of the trimmed,
\* unquoted candidate; the ratios 0.1 and 5.0 are accepted; no other candidate
\* gets that reason.
C33_LengthRatioAfterEarlierChecks ==
    returned.done =>
        /\ returned.value = SuspiciousLengthRatio => ReachesLengthCheck
        /\ ReachesLengthCheck =>
              returned.value = IF RatioOutside THEN SuspiciousLengthRatio ELSE Accept
        /\ Len(call.original) = 10 /\ call.translation = << "A" >> =>
              returned.value = Accept

\* "AAAAA" for "a": the ratio is exactly 5.0 and the candidate is accepted
C33_Witness ==
    /\ returned.done
    /\ call.original = << "a" >>
    /\ call.translation = << "A", "A", "A", "A", "A" >>
    /\ returned.value = Accept


\* ---- C34
\* C34: the three scripts are the same driver: for the same pending items,
\* configuration and backend answers each ends with the same state for every
\* item and saves checkpoints after the same batches (the llama.cpp script
\* taken as the reference).
C34_SameDriver ==
    returned.done => returned.value = RunJob("llamacpp", call)


\* ---- C35
\* the job has the items of the input file, in its order, with their keys and
\* params
SameFrame(job) ==
    /\ Len(job) = Len(load_json(input))
    /\ \A i \in 1..Len(job) :
          /\ job[i].key = load_json(input)[i].key
          /\ job[i].params = load_json(input)[i].params

\* C35: the driver never changes an item's key or params and never adds,
\* removes or reorders items: the job in memory and every checkpoint or output
\* written hold the items of the input in its order, differing from it in the
\* translation and origin fields only.
C35_OnlyTranslationsChange ==
    /\ pc \in {"batch", "process", "checkpoint", "final", "done"} => SameFrame(data)
    /\ checkpoint.state = "complete" => SameFrame(checkpoint.job)
    /\ output.state = "complete" => SameFrame(output.job)

\* a finished run with an accepted and a failed item, and its output written
C35_Witness ==
    /\ pc = "done"
    /\ output.state = "complete"
    /\ failed # <<>>
    /\ \E i \in 1..Len(output.job) :
          Truthy(output.job[i].translation) /\ ~output.job[i].from_locale


\* ---- C36
\* the positions of the job's items that ended without a translation
Untranslated == { k \in 1..Len(call.job) : ~Truthy(returned.value.items[k]) }

\* the keys of the failed list, and the keys the summary shows
ListedKeys == { returned.value.summary.listed[k] :
                  k \in 1..Len(returned.value.summary.listed) }

\* every item is accepted or failed, never both, and the counts are theirs
CountsMatch ==
    /\ \A k \in 1..Len(call.job) :
          Truthy(returned.value.items[k]) <=>
              ~(\E j \in 1..Len(returned.value.failed) :
                    returned.value.failed[j] = call.job[k].key)
    /\ Len(returned.value.failed) = Cardinality(Untranslated)
    /\ returned.value.summary.successful = Len(call.job) - Cardinality(Untranslated)
    /\ returned.value.summary.failed = Cardinality(Untranslated)

\* C36 as stated: at the end of a run every pending item is accepted or failed,
\* the summary's counts are the numbers of items with and without a
\* translation, and the keys it reports are exactly the keys of the latter.
C36_SummaryListsAllFailed ==
    returned.done =>
        /\ CountsMatch
        /\ ListedKeys = { call.job[k].key : k \in Untranslated }

\* C36 amended: the counts are as stated; the summary lists the keys of the
\* failed items in processing order up to the first 10 (5 in the Ollama
\* script), each cut after 60 characters, and gives the number of the others.
C36_SummaryListsFirstFailed ==
    returned.done =>
        /\ CountsMatch
        /\ returned.value.summary.listed =
              [k \in 1..Min(Len(returned.value.failed), ListLimit(variant)) |->
                  KeyDisplay(returned.value.failed[k])]
        /\ ListedKeys \subseteq { KeyDisplay(call.job[k].key) : k \in Untranslated }
        /\ Cardinality(ListedKeys) + returned.value.summary.more = Cardinality(Untranslated)

\* six items failed under the Ollama script: five keys listed, one more announced
C36_Witness ==
    /\ returned.done
    /\ variant = "ollama"
    /\ Cardinality(Untranslated) = 6
    /\ Len(returned.value.summary.listed) = 5
    /\ returned.value.summary.more = 1


\* ---- C37
\* the translating run has ended: every pending item has a translation or is
\* in the failed list, never both, and the backend was called
\* ceil(N / batch_size) times for batches and at most N times for single items
EndedWithinBudget ==
    /\ \A k \in 1..Len(pending) :
          Truthy(data[pending[k]].translation) <=>
              ~(\E j \in 1..Len(failed) : failed[j] = data[pending[k]].key)
    /\ calls.batch = (Len(pending) + batch_size - 1) \div batch_size
    /\ calls.single <= Len(pending)

\* C37: when every backend call returns and the batch size is at least 1, a
\* run over N pending items ends, with every pending item accepted or failed,
\* after exactly ceil(N / batch_size) batch calls and at most N single calls.
C37_RunTerminatesWithinBudget ==
    /\ (pc = "batch") ~> (pc = "done")
    /\ [](pc = "done" /\ output.state = "complete" => EndedWithinBudget)
    /\ [](calls.batch <= (Len(pending) + batch_size - 1) \div batch_size
          /\ calls.single <= Len(pending))

\* three pending items in batches of two: two batch calls, three single calls
C37_Witness ==
    /\ pc = "done"
    /\ Len(pending) = 3
    /\ batch_size = 2
    /\ calls = [batch |-> 2, single |-> 3]


\* ---- C38
\* the i-th line read is an init request, and the error it was answered with
IsInit(i) == log[i].line.json = "object" /\ log[i].line.type = "init"

InitRaised(i) == \E k \in 1..Len(log[i].out) : log[i].out[k].type = "error"

IsEmbed(i) == log[i].line.json = "object" /\ log[i].line.type \in EmbedTypes

\* the i-th line was answered with one error and nothing else
AnsweredWithError(i) == Len(log[i].out) = 1 /\ log[i].out[1].type = "error"

\* no init request before the i-th line, or the last of those in among raised
NoneInitialized(i, among) ==
    LET inits == { j \in 1..(i - 1) : IsInit(j) /\ log[j].line.model \in among }
    IN inits = {} \/ InitRaised(CHOOSE j \in inits : \A h \in inits : h <= j)

\* C38 as stated: an embed request of any of the five types received while no
\* embedder has been initialized (no init yet, or the last init raised) is
\* answered with an error, never with an embedding.
C38_ErrorUnlessInitialized ==
    \A i \in 1..Len(log) :
        IsEmbed(i) /\ NoneInitialized(i, {"string", "list"}) => AnsweredWithError(i)

\* C38 amended: an embed request received while the loop holds no ready
\* embedder (no init yet, or the last init that got as far as replacing the
\* embedder raised) is answered with an error, never with an embedding; an
\* init that raises in the constructor leaves the earlier embedder in place.
C38_ErrorUnlessReadyEmbedder ==
    \A i \in 1..Len(log) :
        /\ IsEmbed(i) /\ NoneInitialized(i, {"string"}) => AnsweredWithError(i)
        /\ IsInit(i) /\ log[i].line.model = "list" => AnsweredWithError(i)

\* an init that succeeded, one that raised in initialize, then an embed
\* request answered "Embedder not initialized"
C38_Witness ==
    /\ Len(log) = 3
    /\ IsInit(1) /\ ~InitRaised(1)
    /\ IsInit(2) /\ InitRaised(2) /\ log[2].line.model = "string"
    /\ IsEmbed(3)
    /\ log[3].out = << send_error("Embedder not initialized", log[3].line.id) >>

\* ---- C39
\* the responses of the i-th line other than progress messages
FinalResponses(i) == SelectSeq(log[i].out, LAMBDA r : r.type # "progress")

\* C39: every non-empty line read before shutdown, the shutdown request
\* excepted, gets exactly one final response (ready, embedding, embeddings or
\* error), and no error ends the loop: it ends with a shutdown request only.
C39_OneResponsePerLine ==
    /\ \A i \in 1..Len(log) :
          log[i].line.json # "blank"
          /\ ~(log[i].line.json = "object" /\ log[i].line.type = "shutdown")
          => /\ Len(FinalResponses(i)) = 1
             /\ FinalResponses(i)[1].type \in {"ready", "embedding", "embeddings", "error"}
    /\ status # "running" =>
          /\ log # <<>>
          /\ log[Len(log)].line.json = "object"
          /\ log[Len(log)].line.type = "shutdown"

\* ---- C40
\* C40: every embedding, embeddings or error response to a parsed request
\* that had an id field carries that id, whatever its value.
C40_ResponsesCarryId ==
    \A i \in 1..Len(log) :
        log[i].line.json = "object" /\ log[i].line.id # "absent" =>
            \A k \in 1..Len(log[i].out) :
                log[i].out[k].type \in {"embedding", "embeddings", "error"} =>
                    log[i].out[k].id = log[i].line.id

====
